---- MODULE Spec2Model ----
(***************************************************************************)
(* Verification model of st_faktura: the invoice number counter            *)
(* (invoice_utils.InvoiceNumberManager), the invoiced-task ledger and the  *)
(* invoice amount computations (CreateInvoice.py, InvoicePDFGenerator).    *)
(*                                                                         *)
(* The specifications of the module:                                       *)
(*   Spec         the invoice number counter file and its allocator        *)
(*   SpecLedger   the invoiced-task ledger file                            *)
(*   SpecKey      the task fingerprint                                     *)
(*   SpecCalc     the console summary, the preview and the PDF totals      *)
(*   SpecCompany  company details, generate_invoice, payment terms         *)
(*   SpecRows     sheet rows read as customers and as tasks                *)
(*   SpecCustomer customer registration (CreateCustomer.py)                *)
(*   SpecMail     send_invoice_email                                       *)
(*   SpecFlow     Steps 5 and 6 of main: customer email, bookkeeping copy  *)
(*   SpecSelect   select_tasks                                             *)
(*   SpecRace     two concurrent invocations of get_next_invoice_number    *)
(*   SpecRun      main of CreateInvoice.py: one run of the flow            *)
(* Each keeps the variables of the others at their idle values.            *)
(***************************************************************************)
EXTENDS Integers, Sequences, FiniteSets, TLC

VARIABLES
  \* ---- invoice number counter (invoice_numbering.json) ----
  counterFile,   \* content of the counter file, see CounterFiles
  initFile,      \* history: the counter file when the run started
  issued,        \* history: the values get_next_invoice_number returned, in order
  savedAtReturn, \* history: for each returned value, whether the file held it at return
  writesOk,      \* history: every counter file write so far succeeded
  outcomes,      \* history: the outcome of the write of each allocation, in order
  lastPeek,      \* what peek_next_invoice_number returned since the last allocation
  peekAtAlloc,   \* the peek that preceded the latest allocation, or NoValue
  peeks,         \* peeks since the last allocation
  \* ---- invoiced-task ledger (invoiced_tasks.json) ----
  ledgerFile,    \* content of the ledger file, see LedgerFiles
  clock,         \* datetime.now(), in ticks
  taskA,         \* a task of the selected customer
  taskB,         \* taskA with one field given another value
  changed,       \* the field in which taskB differs from taskA
  recT,          \* the task list of the latest record_invoiced_tasks call, or <<>>
  recK,          \* its invoice number
  recOutcome,    \* the outcome of its ledger file write
  chkT,          \* the task list of the latest warn_already_invoiced call since then
  chkHits,       \* the (task, entry) pairs it reported as already invoiced
  chkResult,     \* what it returned: "none" before any call, else "proceed" or "decline"
  ledgerOps,     \* ledger operations made so far
  keyA,          \* _task_unique_key(taskA) once computed, else NoValue
  keyB,          \* _task_unique_key(taskB) once computed, else NoValue
  \* ---- invoice amounts (summary, preview, PDF items table) ----
  selected,      \* selected_tasks of the run
  hourlyRate,    \* selected_customer['hourly_rate'], in 1/100 krone
  creditMemo,    \* the answer to the credit memo prompt
  calcPc,        \* position of the run: see the actions of SpecCalc
  summary,       \* what calculate_invoice_summary printed, or NoValue
  preview,       \* what the invoice preview printed, or NoValue
  pdf,           \* what the items table of the PDF holds, or NoValue
  \* ---- company details (st-faktura.json, sheet "Company Details") ----
  companyFile,   \* content of st-faktura.json, see CompanyFiles
  companySheet,  \* the rows of the range Company Details!A2:L2
  envDays,       \* the environment's PAYMENT_TERMS_DAYS, or Absent
  details,       \* the latest load_company_details call, or NoValue
  genResult,     \* the latest InvoiceManager.generate_invoice call, or NoValue
  pdfDoc,        \* the invoice PDF written last, or NoValue
  previewTerms,  \* the payment terms the latest preview printed, or NoValue
  companyOps,    \* company operations made so far
  \* ---- the sheets "Kunder" and "Opgave" read by the invoice run ----
  customersSheet, \* the rows of Kunder!A:I
  tasksSheet,     \* the rows of Opgave!A:I
  customers,      \* the latest get_customers call, or NoValue
  customerTasks,  \* the latest get_customer_tasks call, or NoValue
  \* ---- customer registration (CreateCustomer.py) ----
  regSheet,       \* the rows of the customer sheet, range A:I
  lastAdd,        \* the latest add_customer call, or NoValue
  adds,           \* add_customer calls made so far
  \* ---- invoice email (send_invoice_email) ----
  mailEnv,        \* the environment's SMTP and sender settings
  mailArgs,       \* customer_email and cc_emails of the call
  mailWorld,      \* what the call will meet: token, PDF file, SMTP failure
  mail,           \* the latest send_invoice_email call, or NoValue
  \* ---- Steps 5 and 6 of main ----
  flowPc,         \* position of the run: generated, emailed, done
  flowIn,         \* the customer's email address, --yes, BOOKKEEPING_EMAIL
  customerSend,   \* Step 5 as it went, or NoValue
  bookSend,       \* Step 6 as it went, or NoValue
  \* ---- select_tasks ----
  selectPc,       \* position of the call: called, prompting, returned
  offered,        \* the tasks offered for selection
  entered,        \* the texts entered at the prompt so far
  selectRet,      \* what the call returned, or NoValue
  \* ---- two invocations of get_next_invoice_number on one counter file ----
  racePc,         \* position of each invocation
  raceLocal,      \* current_number, next_number and write outcome of each
  raceRet,        \* the number each returned, or NoValue
  raceOverlap,    \* history: one was called while the other was running
  \* ---- main of CreateInvoice.py: one run of the flow ----
  runPc,          \* position of the run, see the actions of SpecRun
  runIn,          \* what the run is given: -y, working directory, customer, tasks
  runSel,         \* selected_tasks
  runGate,        \* history: the selection warn_already_invoiced let pass, and how
  runFlags,       \* history: the selection was adjusted; generation was confirmed
  runAlloc,       \* history: the invoice number allocated and the counter file then
  runPdf,         \* pdf_path, or <<>>
  runTrace,       \* history: the steps made after the confirmation, in order
  runUses,        \* history: the invoice numbers put in the ledger and the emails
  runSend,        \* cc_list of Step 5, when the customer email was sent
  runLast,        \* history: the prompt of the latest step and how it was answered
  exitCode        \* the exit code of the process, <<>> while it runs

counterVars == <<counterFile, initFile, issued, savedAtReturn, writesOk, outcomes,
                 lastPeek, peekAtAlloc, peeks>>

ledgerVars == <<ledgerFile, clock, taskA, taskB, changed, recT, recK, recOutcome,
                chkT, chkHits, chkResult, ledgerOps, keyA, keyB>>

calcVars == <<selected, hourlyRate, creditMemo, calcPc, summary, preview, pdf>>

companyVars == <<companyFile, companySheet, envDays, details, genResult,
                 pdfDoc, previewTerms, companyOps>>

\* the variables of the specifications after SpecCalc
rowVars == <<customersSheet, tasksSheet, customers, customerTasks>>

customerVars == <<regSheet, lastAdd, adds>>

mailVars == <<mailEnv, mailArgs, mailWorld, mail>>

flowVars == <<flowPc, flowIn, customerSend, bookSend>>

selectVars == <<selectPc, offered, entered, selectRet>>

raceVars == <<racePc, raceLocal, raceRet, raceOverlap>>

\* the variables of the specifications after SpecFlow
runVars == <<runPc, runIn, runSel, runGate, runFlags, runAlloc, runPdf, runTrace, runUses,
            runSend, runLast, exitCode>>

\* the variables of the specifications after SpecFlow
moreVars == <<selectVars, raceVars, runVars>>

extVars == <<companyVars, rowVars, customerVars, mailVars, flowVars, moreVars>>

vars == <<counterVars, ledgerVars, calcVars, extVars>>

----------------------------------------------------------------------------
(* Bounds of the model *)

\* get_next_invoice_number calls in one behaviour
MaxCalls == 3
\* peek_next_invoice_number calls between two allocations
MaxPeeks == 2
\* tasks in one selection handed to the ledger
MaxTasks == 2
\* ledger operations (record, check) in one behaviour
MaxLedgerOps == 2
\* cells of the company row the model fills
MaxRowCells == 2
\* company operations per behaviour
MaxCompanyOps == 2
\* data rows of a sheet
MaxDataRows == 2
\* add_customer calls in one behaviour
MaxAdds == 2
\* addresses in the CC list handed to send_invoice_email
MaxCc == 2
\* passes of the prompt loop of select_tasks
MaxPrompts == 2

----------------------------------------------------------------------------
(* JSON values of the counter file.  A JSON number is an integer or a      *)
(* float; the floats of the model are the values n + 0.5.                  *)

NoValue == [type |-> "none"]
JInt(n) == [type |-> "int", val |-> n]
JHalf(n) == [type |-> "float", val |-> n]
JString == [type |-> "string"]
JNull == [type |-> "null"]

IsNumber(j) == j.type \in {"int", "float"}

\* config.get('current_invoice_number', 784) and the else branch: the floor
DefaultInvoiceNumber == 784
\* the except branch of get_next_invoice_number: return 785
FallbackInvoiceNumber == 785

\* The counter file: absent, not parseable as JSON (also: empty, truncated),
\* a JSON list, a JSON object without the key, or an object with a value.
FileAbsent == [kind |-> "absent"]
FileInvalid == [kind |-> "invalid"]
FileList == [kind |-> "list"]
FileNoKey == [kind |-> "object", has |-> FALSE]
FileWith(j) == [kind |-> "object", has |-> TRUE, value |-> j]

\* persisted counter values a run may start from
StartNumbers == {0, DefaultInvoiceNumber, FallbackInvoiceNumber, 900}

CounterFiles ==
  {FileAbsent, FileInvalid, FileList, FileNoKey, FileWith(JString), FileWith(JNull)}
    \cup {FileWith(JInt(n)) : n \in StartNumbers}
    \cup {FileWith(JHalf(n)) : n \in {10, DefaultInvoiceNumber}}

\* outcomes of writing the counter file: written; the write raised before the
\* file was opened (makedirs, open); it raised after open(..., 'w') truncated it
WriteOutcomes == {"ok", "fail_unchanged", "fail_truncated"}

----------------------------------------------------------------------------
(* InvoiceNumberManager *)

\* os.path.exists / json.load / config.get of get_next_invoice_number:
\* the current number, or raised |-> TRUE when one of them raises
LoadCurrentNumber(file) ==
  CASE file.kind = "absent" -> [raised |-> FALSE, value |-> JInt(DefaultInvoiceNumber)]
    [] file.kind = "invalid" -> [raised |-> TRUE]
    [] file.kind = "list" -> [raised |-> TRUE]
    [] file.kind = "object" ->
         IF file.has
           THEN [raised |-> FALSE, value |-> file.value]
           ELSE [raised |-> FALSE, value |-> JInt(DefaultInvoiceNumber)]

NextNumberSkipping(current) == [current EXCEPT !.val = @ + 2]

\* next_number = current_number + 1, for a number (int or float)
NextNumber(current) == [current EXCEPT !.val = @ + 1]

\* _save_invoice_number: writes {'current_invoice_number': n}; a failure is logged
\* and swallowed
save_invoice_number(file, number, outcome) ==
  CASE outcome = "ok" -> FileWith(number)
    [] outcome = "fail_unchanged" -> file
    [] outcome = "fail_truncated" -> FileInvalid

\* get_next_invoice_number as a function of the file and the write's outcome:
\* the value returned and the file left behind
GetNext(file, outcome) ==
  LET cur == LoadCurrentNumber(file) IN
    IF cur.raised \/ ~IsNumber(cur.value)
      THEN [ret |-> JInt(FallbackInvoiceNumber), file |-> file, wrote |-> FALSE]
      ELSE [ret |-> NextNumber(cur.value),
            file |-> save_invoice_number(file, NextNumber(cur.value), outcome),
            wrote |-> TRUE]

\* peek_next_invoice_number: current + 1 without persisting; the documented
\* default floor when the persisted value is unreadable
PeekNext(file) ==
  LET cur == LoadCurrentNumber(file) IN
    IF cur.raised \/ ~IsNumber(cur.value)
      THEN JInt(DefaultInvoiceNumber + 1)
      ELSE [cur.value EXCEPT !.val = @ + 1]

get_next_invoice_number ==
  /\ Len(issued) < MaxCalls
  /\ \E outcome \in WriteOutcomes :
       LET r == GetNext(counterFile, outcome) IN
         /\ counterFile' = r.file
         /\ issued' = Append(issued, r.ret)
         /\ savedAtReturn' = Append(savedAtReturn, r.file = FileWith(r.ret))
         /\ writesOk' = (writesOk /\ (r.wrote => outcome = "ok"))
         /\ outcomes' = Append(outcomes, outcome)
  /\ peekAtAlloc' = lastPeek
  /\ lastPeek' = NoValue
  /\ peeks' = 0
  /\ UNCHANGED initFile

peek_next_invoice_number ==
  /\ peeks < MaxPeeks
  /\ Len(issued) < MaxCalls
  /\ lastPeek' = PeekNext(counterFile)
  /\ peeks' = peeks + 1
  /\ UNCHANGED <<counterFile, initFile, issued, savedAtReturn, writesOk, outcomes,
                 peekAtAlloc>>

----------------------------------------------------------------------------
(* Strings are sequences of characters, so that strip, slicing and join are *)
(* computed as Python computes them.                                        *)

Min(a, b) == IF a <= b THEN a ELSE b

RECURSIVE Repeat(_, _)
Repeat(c, n) == IF n = 0 THEN <<>> ELSE <<c>> \o Repeat(c, n - 1)

RECURSIVE LStrip(_)
LStrip(s) == IF s # <<>> /\ Head(s) = " " THEN LStrip(Tail(s)) ELSE s

RECURSIVE RStrip(_)
RStrip(s) ==
  IF s # <<>> /\ s[Len(s)] = " " THEN RStrip(SubSeq(s, 1, Len(s) - 1)) ELSE s

\* str.strip()
Strip(s) == LStrip(RStrip(s))

\* s[:n]
Prefix(s, n) == SubSeq(s, 1, Min(n, Len(s)))

\* sep.join(parts)
RECURSIVE Join(_, _)
Join(parts, sep) ==
  IF parts = <<>> THEN <<>>
  ELSE IF Len(parts) = 1 THEN parts[1]
  ELSE parts[1] \o sep \o Join(Tail(parts), sep)

----------------------------------------------------------------------------
(* Tasks and the task fingerprint *)

\* the keys of a task dictionary, in the order _task_unique_key reads them
TaskFields == <<"customer_name", "date", "tasktype", "pricing_type", "description",
                "time_minutes", "price", "discount_percentage", "sum">>

\* task.get('description','').strip()[:120]
DescriptionKeyLength == 120

\* one part of the key: the field stripped, the description also cut
Normalize(field, value) ==
  IF field = "description"
    THEN Prefix(Strip(value), DescriptionKeyLength)
    ELSE Strip(value)

\* the value of a key the task dictionary does not hold
Absent == <<"<absent>">>

\* task.get(field, default)
Get(task, field, default) == IF task[field] = Absent THEN default ELSE task[field]

KeyWithoutSum(task) ==
  Join([i \in 1..(Len(TaskFields) - 1) |->
          Normalize(TaskFields[i], Get(task, TaskFields[i], <<>>))],
       <<"|">>)

\* _task_unique_key
task_unique_key(task) ==
  Join([i \in 1..Len(TaskFields) |->
          Normalize(TaskFields[i], Get(task, TaskFields[i], <<>>))],
       <<"|">>)

\* a task row of the sheet "Opgave": nine string cells
Task1 ==
  [customer_name |-> <<"a">>, date |-> <<"1">>, tasktype |-> <<"t">>,
   pricing_type |-> <<"h">>, description |-> <<"a", "b">>, time_minutes |-> <<"6">>,
   price |-> <<"5">>, discount_percentage |-> <<"0">>, sum |-> <<"5">>]

\* the same row with a description of exactly 120 characters
Task2 == [Task1 EXCEPT !.description = Repeat("a", DescriptionKeyLength - 1) \o <<"b">>]

\* other values a cell may hold instead of value
Variants(value) ==
  {value \o <<"x">>, <<"x">> \o value, value \o <<" ">>, <<" ">> \o value, <<>>}
    \ {value}

----------------------------------------------------------------------------
(* The ledger file and its operations *)

LedgerAbsent == [kind |-> "absent"]
\* not parseable as JSON (also: empty, truncated)
LedgerInvalid == [kind |-> "invalid"]
\* valid JSON that is not an object
LedgerNotDict == [kind |-> "notdict"]
\* a JSON object: entries maps each key to its {invoice_number, date}
LedgerDict(entries) == [kind |-> "dict", entries |-> entries]

EmptyDict == [k \in {} |-> NoValue]

\* _load_invoiced_tasks: the dict of the file, {} when there is none to read
load_invoiced_tasks(file) ==
  IF file.kind = "dict" THEN file.entries ELSE EmptyDict

\* _save_invoiced_tasks: a failure is logged and swallowed
save_invoiced_tasks(file, data, outcome) ==
  CASE outcome = "ok" -> LedgerDict(data)
    [] outcome = "fail_unchanged" -> file
    [] outcome = "fail_truncated" -> LedgerInvalid

SetItemUnlessPresent(dict, key, value) ==
  [k \in DOMAIN dict \cup {key} |-> IF k \in DOMAIN dict THEN dict[k] ELSE value]

\* invoiced[key] = value
SetItem(dict, key, value) ==
  [k \in DOMAIN dict \cup {key} |-> IF k = key THEN value ELSE dict[k]]

\* the loop of record_invoiced_tasks over the tasks
RECURSIVE RecordLoop(_, _, _, _)
RecordLoop(invoiced, tasks, invoice_number, ts) ==
  IF tasks = <<>> THEN invoiced
  ELSE RecordLoop(SetItem(invoiced, task_unique_key(Head(tasks)),
                          [invoice_number |-> invoice_number, date |-> ts]),
                  Tail(tasks), invoice_number, ts)

\* the loop of warn_already_invoiced: the (task, meta) pairs already invoiced
RECURSIVE AlreadyInvoiced(_, _)
AlreadyInvoiced(invoiced, tasks) ==
  IF tasks = <<>> THEN <<>>
  ELSE LET key == task_unique_key(Head(tasks)) IN
         (IF key \in DOMAIN invoiced
            THEN <<[task |-> Head(tasks), meta |-> invoiced[key]]>>
            ELSE <<>>)
           \o AlreadyInvoiced(invoiced, Tail(tasks))

\* the selections the flow hands to the ledger: non-empty lists of the tasks
TaskLists == UNION {[1..n -> {taskA, taskB}] : n \in 1..MaxTasks}

\* invoice numbers the tasks are recorded under
InvoiceNumbers == {900, 901}

\* the valid answers to "Proceed anyway and include them again? (y/N)"; any
\* other answer asks again
Answers == {"y", "n", ""}

record_invoiced_tasks ==
  /\ ledgerOps < MaxLedgerOps
  /\ \E tasks \in TaskLists, invoice_number \in InvoiceNumbers, outcome \in WriteOutcomes :
       LET invoiced == RecordLoop(load_invoiced_tasks(ledgerFile), tasks,
                                  invoice_number, clock) IN
         /\ ledgerFile' = save_invoiced_tasks(ledgerFile, invoiced, outcome)
         /\ recT' = tasks
         /\ recK' = invoice_number
         /\ recOutcome' = outcome
  /\ chkT' = <<>>
  /\ chkHits' = <<>>
  /\ chkResult' = "none"
  /\ clock' = clock + 1
  /\ ledgerOps' = ledgerOps + 1
  /\ UNCHANGED <<taskA, taskB, changed, keyA, keyB>>

warn_already_invoiced ==
  /\ ledgerOps < MaxLedgerOps
  /\ \E tasks \in TaskLists, answer \in Answers :
       LET already == AlreadyInvoiced(load_invoiced_tasks(ledgerFile), tasks) IN
         /\ chkT' = tasks
         /\ chkHits' = already
         /\ chkResult' = IF already = <<>> \/ answer = "y" THEN "proceed" ELSE "decline"
  /\ clock' = clock + 1
  /\ ledgerOps' = ledgerOps + 1
  /\ UNCHANGED <<ledgerFile, taskA, taskB, changed, recT, recK, recOutcome, keyA, keyB>>

\* the two tasks are fingerprinted
fingerprint_tasks ==
  /\ keyA = NoValue
  /\ keyA' = task_unique_key(taskA)
  /\ keyB' = task_unique_key(taskB)
  /\ UNCHANGED <<ledgerFile, clock, taskA, taskB, changed, recT, recK, recOutcome,
                 chkT, chkHits, chkResult, ledgerOps>>

----------------------------------------------------------------------------
(* Numbers in cells.  float(s) is computed on the characters of s for the    *)
(* texts [sign] digits [. digits] with at most three decimals and for "inf";  *)
(* a finite value is held in 1/1000.  Amounts of money are held in 1/24000   *)
(* krone, in which a quarter of every amount of the model is a whole number. *)

Digits == <<"0", "1", "2", "3", "4", "5", "6", "7", "8", "9">>

IsDigit(c) == \E d \in 1..Len(Digits) : Digits[d] = c

DigitValue(c) == (CHOOSE d \in 1..Len(Digits) : Digits[d] = c) - 1

IsDigits(s) == \A i \in 1..Len(s) : IsDigit(s[i])

RECURSIVE DigitsValue(_)
DigitsValue(s) ==
  IF s = <<>> THEN 0
  ELSE DigitsValue(SubSeq(s, 1, Len(s) - 1)) * 10 + DigitValue(s[Len(s)])

\* the decimal digits of n >= 0
RECURSIVE DigitsOf(_)
DigitsOf(n) ==
  IF n < 10 THEN <<Digits[n + 1]>> ELSE DigitsOf(n \div 10) \o <<Digits[(n % 10) + 1]>>

\* the value, in 1/1000, of the decimals after the point
FractionValue(s) ==
  CASE Len(s) = 0 -> 0
    [] Len(s) = 1 -> DigitsValue(s) * 100
    [] Len(s) = 2 -> DigitsValue(s) * 10
    [] Len(s) = 3 -> DigitsValue(s)

\* float(s) of a string: finite (value in 1/1000), infinite, or ValueError
FloatOf(s) ==
  LET t == Strip(s)
      signed == t # <<>> /\ Head(t) \in {"-", "+"}
      negative == t # <<>> /\ Head(t) = "-"
      u == IF signed THEN Tail(t) ELSE t
      dots == {i \in 1..Len(u) : u[i] = "."}
      sign == IF negative THEN -1 ELSE 1
  IN IF u = <<"i", "n", "f">> THEN [kind |-> "inf", negative |-> negative]
     ELSE IF dots = {} THEN
       IF u # <<>> /\ IsDigits(u)
         THEN [kind |-> "finite", milli |-> sign * DigitsValue(u) * 1000]
         ELSE [kind |-> "error"]
     ELSE IF Cardinality(dots) = 1 THEN
       LET p == CHOOSE i \in dots : TRUE
           ip == SubSeq(u, 1, p - 1)
           fp == SubSeq(u, p + 1, Len(u))
       IN IF IsDigits(ip) /\ IsDigits(fp) /\ Len(ip) + Len(fp) > 0 /\ Len(fp) <= 3
            THEN [kind |-> "finite",
                  milli |-> sign * (DigitsValue(ip) * 1000 + FractionValue(fp))]
            ELSE [kind |-> "error"]
     ELSE [kind |-> "error"]

\* int(x) of a finite float: truncation towards zero
Truncate(milli) == IF milli >= 0 THEN milli \div 1000 ELSE -((-milli) \div 1000)

\* safe_int (display_tasks, calculate_invoice_summary, main): 0 for None, for a
\* blank and for a ValueError; the OverflowError of int(float('inf')) is not caught
safe_int(value) ==
  IF value = Absent THEN [raised |-> FALSE, value |-> 0]
  ELSE IF Strip(value) = <<>> THEN [raised |-> FALSE, value |-> 0]
  ELSE LET f == FloatOf(Strip(value)) IN
         CASE f.kind = "finite" -> [raised |-> FALSE, value |-> Truncate(f.milli)]
           [] f.kind = "error" -> [raised |-> FALSE, value |-> 0]
           [] f.kind = "inf" -> [raised |-> TRUE]

\* an amount given in 1/1000 krone
FromMilli(milli) == milli * 24

\* (minutes / 60.0) * hourly_rate, the rate in 1/100 krone
AtHourlyRate(minutes, rate) == minutes * rate * 4

VatOneFifth(subtotal) == subtotal \div 5

\* subtotal * 0.25: every amount of the model is a multiple of four units
Vat(subtotal) == subtotal \div 4

RECURSIVE SumSeq(_)
SumSeq(s) == IF s = <<>> THEN 0 ELSE Head(s) + SumSeq(Tail(s))

\* f"{x:.2f}" of x = -+(absMilli / 1000): rounded to the nearest 1/100
FormatFixed2(negative, absMilli) ==
  LET cents == (absMilli + 5) \div 10 IN
    (IF negative THEN <<"-">> ELSE <<>>)
      \o DigitsOf(cents \div 100) \o <<".">>
      \o <<Digits[((cents % 100) \div 10) + 1], Digits[(cents % 10) + 1]>>

----------------------------------------------------------------------------
(* The three places that compute the amounts of an invoice *)

\* calculate_invoice_summary: raised when a safe_int raises, else what it prints
calculate_summary(tasks, hourly_rate) ==
  LET minutes == [i \in 1..Len(tasks) |-> safe_int(tasks[i].time_minutes)] IN
    IF \E i \in 1..Len(tasks) : minutes[i].raised
      THEN [raised |-> TRUE]
      ELSE LET total_minutes == SumSeq([i \in 1..Len(tasks) |-> minutes[i].value])
               subtotal == AtHourlyRate(total_minutes, hourly_rate)
               vat_amount == Vat(subtotal)
           IN [raised |-> FALSE, total_minutes |-> total_minutes,
               subtotal |-> subtotal, vat |-> vat_amount,
               total |-> subtotal + vat_amount]

\* float(t.get('sum','0') or 0) of the preview, 0 on ValueError
PreviewSum(task) ==
  LET cell == Get(task, "sum", <<"0">>) IN
    IF cell = <<>> THEN 0
    ELSE LET f == FloatOf(cell) IN IF f.kind = "finite" THEN FromMilli(f.milli) ELSE 0

\* the monetary part of the invoice preview of main
preview_totals(tasks) ==
  LET subtotal_preview == SumSeq([i \in 1..Len(tasks) |-> PreviewSum(tasks[i])])
      vat_preview == Vat(subtotal_preview)
  IN [subtotal |-> subtotal_preview, vat |-> vat_preview,
      total |-> subtotal_preview + vat_preview]

\* float(line_sum) if line_sum else 0.0 of the items table, 0 on ValueError
LineSum(task) ==
  LET line_sum == Get(task, "sum", <<"0">>) IN
    IF line_sum = <<>> THEN 0
    ELSE LET f == FloatOf(line_sum) IN IF f.kind = "finite" THEN FromMilli(f.milli) ELSE 0

\* -float(t.get(field, 0)) formatted with two decimals; 0.00 when float raises
Inverted(task, field) ==
  IF task[field] = Absent THEN FormatFixed2(TRUE, 0)
  ELSE LET f == FloatOf(task[field]) IN
         IF f.kind = "finite"
           THEN FormatFixed2(f.milli >= 0, IF f.milli >= 0 THEN f.milli ELSE -f.milli)
           ELSE FormatFixed2(FALSE, 0)

\* the credit memo branch of generate_invoice_pdf: sums and prices inverted
CreditMemoTasks(tasks) ==
  [i \in 1..Len(tasks) |->
     [tasks[i] EXCEPT !.sum = Inverted(tasks[i], "sum"),
                      !.price = Inverted(tasks[i], "price")]]

\* _create_new_items_table: the price and sum cells of the rows, and the totals
create_new_items_table(tasks) ==
  LET subtotal == SumSeq([i \in 1..Len(tasks) |-> LineSum(tasks[i])])
      moms == Vat(subtotal)
  IN [rows |-> [i \in 1..Len(tasks) |->
                  [price |-> Get(tasks[i], "price", <<"0">>),
                   sum |-> Get(tasks[i], "sum", <<"0">>)]],
      subtotal |-> subtotal, vat |-> moms, total |-> subtotal + moms]

\* generate_invoice_pdf: the items table it renders; hourly_rate is not used
generate_invoice_pdf(tasks, hourly_rate, credit_memo) ==
  create_new_items_table(IF credit_memo THEN CreditMemoTasks(tasks) ELSE tasks)

\* hourly rates of the customers, in 1/100 krone: 500.0 (the default) and 750.5
HourlyRates == {50000, 75050}

\* cells of the columns "Min. forbrugt" and "Sum" of the model's task rows
MinuteCells == {<<"1", "2", "0">>, <<"9", "0", ".", "5">>, <<"a", "b", "c">>, <<>>,
                Absent, <<"i", "n", "f">>}

SumCells == {<<"3", "0", "0", ".", "0", "0">>, <<"4", "5", "0", ".", "2", "5">>,
             <<"4", "5", "0", ".", "2", "5", "4">>, <<"a", "b", "c">>, <<>>, Absent}

\* the task rows of the selected customer
CalcTasks ==
  {[Task1 EXCEPT !.time_minutes = mc, !.sum = sc] : mc \in MinuteCells, sc \in SumCells}

\* Step 3 of main: calculate_invoice_summary(selected_tasks, hourly_rate); an
\* exception ends the run with exit code 1
calculate_invoice_summary ==
  /\ calcPc = "selected"
  /\ LET r == calculate_summary(selected, hourlyRate) IN
       IF r.raised
         THEN /\ calcPc' = "aborted"
              /\ UNCHANGED summary
         ELSE /\ calcPc' = "summarised"
              /\ summary' = r
  /\ UNCHANGED <<selected, hourlyRate, creditMemo, preview, pdf>>

\* the invoice preview of main, shown unless --no-preview is given
invoice_preview ==
  /\ calcPc = "summarised"
  /\ calcPc' = "previewed"
  /\ preview' = preview_totals(selected)
  /\ UNCHANGED <<selected, hourlyRate, creditMemo, summary, pdf>>

\* Step 4 of main: generate_invoice(customer, selected_tasks,
\* hourly_rate * (-1 if credit_memo else 1), credit_memo)
generate_invoice ==
  /\ calcPc \in {"summarised", "previewed"}
  /\ calcPc' = "generated"
  /\ pdf' = generate_invoice_pdf(selected,
                                 hourlyRate * (IF creditMemo THEN -1 ELSE 1), creditMemo)
  /\ UNCHANGED <<selected, hourlyRate, creditMemo, summary, preview>>

(* Company details: st-faktura.json merged with the row of the sheet *)

\* Python's None
PyNone == [kind |-> "None"]

\* a dictionary a function returned
Some(d) == [kind |-> "dict", d |-> d]

\* expected_keys of load_company_details; mapping sends the cell at index i of the
\* sheet row to ExpectedKeys[i + 1]
ExpectedKeys ==
  <<"company_name", "company_address", "company_cvr", "company_zip", "company_town",
    "company_phone", "company_email", "bank_name", "bank_account", "iban", "swift",
    "additional_info", "payment_terms_days">>

ExpectedKeySet == {ExpectedKeys[i] : i \in 1..Len(ExpectedKeys)}

\* st-faktura.json: missing, not parsable, JSON that is no object, or an object
CompanyFileAbsent == [kind |-> "absent"]
CompanyFileInvalid == [kind |-> "invalid"]
CompanyFileNotDict == [kind |-> "notdict"]
CompanyFileDict(d) == [kind |-> "dict", d |-> d]

\* json.load of the local file: {} when the file is missing or json.load raises;
\* raised when the value loaded has no setdefault
LoadLocal(file) ==
  CASE file.kind = "absent" -> [raised |-> FALSE, d |-> [k \in {} |-> <<>>]]
    [] file.kind = "invalid" -> [raised |-> FALSE, d |-> [k \in {} |-> <<>>]]
    [] file.kind = "notdict" -> [raised |-> TRUE]
    [] file.kind = "dict" -> [raised |-> FALSE, d |-> file.d]

\* for k in expected_keys: base_details.setdefault(k, '')
SetDefaults(d) ==
  [k \in (DOMAIN d) \cup ExpectedKeySet |-> IF k \in DOMAIN d THEN d[k] ELSE <<>>]

\* sheet_details: the stripped cells of the row that are not empty, by key
SheetDetails(row) ==
  LET idxs == {i \in 1..Min(Len(row), Len(ExpectedKeys)) : Strip(row[i]) # <<>>} IN
    [k \in {ExpectedKeys[i] : i \in idxs} |->
       Strip(row[CHOOSE i \in idxs : ExpectedKeys[i] = k])]

\* base_details.update(sheet_details)
Update(base, other) ==
  [k \in (DOMAIN base) \cup (DOMAIN other) |->
     IF k \in DOMAIN other THEN other[k] ELSE base[k]]

\* what read_sheet gave: it raised, or the rows of the range
ReadRaised == [kind |-> "raised"]
ReadRows(rows) == [kind |-> "rows", rows |-> rows]

\* base_details after steps 1 and 2 of load_company_details
MergedDetails(local, reply) ==
  IF reply.kind = "rows" /\ Len(reply.rows) >= 1
    THEN Update(SetDefaults(local), SheetDetails(reply.rows[1]))
    ELSE SetDefaults(local)

NameNeverMissing(d) == FALSE

\* not base_details.get('company_name')
NameMissing(d) == d["company_name"] = <<>>

\* load_company_details as a function of the local file and of what read_sheet gave
LoadCompanyDetails(file, reply) ==
  LET local == LoadLocal(file) IN
    IF local.raised THEN PyNone
    ELSE LET merged == MergedDetails(local.d, reply) IN
           IF NameMissing(merged) THEN PyNone ELSE Some(merged)

\* int(s.strip()): an optional sign and decimal digits
IntOf(s) ==
  LET t == Strip(s)
      signed == t # <<>> /\ Head(t) \in {"+", "-"}
      body == IF signed THEN Tail(t) ELSE t
  IN IF body # <<>> /\ IsDigits(body)
       THEN [ok |-> TRUE,
             val |-> (IF signed /\ Head(t) = "-" THEN -1 ELSE 1) * DigitsValue(body)]
       ELSE [ok |-> FALSE]

\* the fallback of the payment terms
DefaultPaymentTermsDays == 8

\* the PAYMENT_TERMS_DAYS branch: os.getenv, int(env.strip()), else the fallback
EnvPaymentTermsDays(env) ==
  IF env # Absent /\ env # <<>> /\ IntOf(env).ok
    THEN IntOf(env).val
    ELSE DefaultPaymentTermsDays

\* payment_terms_days of _create_payment_section: the environment is read only
\* when the company field is empty
PdfPaymentTermsDays(raw_ct, env) ==
  IF raw_ct # <<>>
    THEN IF IntOf(raw_ct).ok THEN IntOf(raw_ct).val ELSE DefaultPaymentTermsDays
    ELSE EnvPaymentTermsDays(env)

\* payment_terms_days of the preview of main; cdetails is None or Some(d)
PreviewPaymentTermsDays(cdetails, env) ==
  LET raw_ct == IF cdetails = PyNone THEN <<>> ELSE cdetails.d["payment_terms_days"] IN
    IF raw_ct # <<>> /\ IntOf(raw_ct).ok
      THEN IntOf(raw_ct).val
      ELSE EnvPaymentTermsDays(env)

\* values of the local file's company_name, company_address and payment_terms_days;
\* Absent: the key is not in the file
LocalNames == {Absent, <<>>, <<"A">>, <<" ">>}
LocalAddresses == {<<"S">>}
LocalTerms == {Absent, <<"1", "4">>, <<"a", "b", "c">>, <<" ", "7">>}

LocalDict(name, address, terms) ==
  LET given == [company_name |-> name, company_address |-> address,
                payment_terms_days |-> terms]
  IN [k \in {f \in DOMAIN given : given[f] # Absent} |-> given[k]]

CompanyFiles ==
  {CompanyFileAbsent, CompanyFileInvalid, CompanyFileNotDict}
    \cup {CompanyFileDict(LocalDict(n, a, t)) :
            n \in LocalNames, a \in LocalAddresses, t \in LocalTerms}

\* cells of the row "Company Details!A2:L2"; the model's rows hold the leading cells
SheetCells == {<<>>, <<" ">>, <<" ", "B">>}

CompanySheets ==
  {<<>>} \cup {<<row>> : row \in UNION {[1..n -> SheetCells] : n \in 0..MaxRowCells}}

\* os.getenv('PAYMENT_TERMS_DAYS'); Absent: not set
EnvTerms == {Absent, <<"3", "0">>, <<"x">>}

\* datetime.now() of the preview and of the PDF, as a day number
InvoiceDates == {100}

\* sheets_client.read_sheet(spreadsheet_id, COMPANY_DETAILS_SHEET_RANGE)
SheetReplies == {ReadRaised, ReadRows(companySheet)}

load_company_details ==
  /\ companyOps < MaxCompanyOps
  /\ companyOps' = companyOps + 1
  /\ \E reply \in SheetReplies :
       details' = [reply |-> reply, ret |-> LoadCompanyDetails(companyFile, reply)]
  /\ UNCHANGED <<companyFile, companySheet, envDays, genResult, pdfDoc, previewTerms>>

\* the payment terms of the invoice preview of main
preview_payment_terms ==
  /\ companyOps < MaxCompanyOps
  /\ companyOps' = companyOps + 1
  /\ \E reply \in SheetReplies, issue_date \in InvoiceDates :
       LET cdetails == LoadCompanyDetails(companyFile, reply)
           days == PreviewPaymentTermsDays(cdetails, envDays)
       IN previewTerms' = [reply |-> reply, details |-> cdetails, days |-> days,
                           issue |-> issue_date, due |-> issue_date + days]
  /\ UNCHANGED <<companyFile, companySheet, envDays, details, genResult, pdfDoc>>

\* InvoiceManager.generate_invoice: company details, the next invoice number, the
\* PDF; None when the details are missing or when the renderer raises
InvoiceManager_generate_invoice ==
  /\ companyOps < MaxCompanyOps
  /\ Len(issued) < MaxCalls
  /\ companyOps' = companyOps + 1
  /\ \E reply \in SheetReplies :
       LET company_details == LoadCompanyDetails(companyFile, reply) IN
         IF company_details = PyNone
           THEN /\ genResult' = [reply |-> reply, ret |-> PyNone, rendered |-> FALSE]
                /\ UNCHANGED <<counterVars, pdfDoc>>
           ELSE /\ get_next_invoice_number
                /\ \E written \in BOOLEAN, invoice_date \in InvoiceDates :
                     LET days == PdfPaymentTermsDays(
                                   company_details.d["payment_terms_days"], envDays)
                         doc == [number |-> issued'[Len(issued')],
                                 company |-> company_details.d,
                                 items |-> generate_invoice_pdf(selected, hourlyRate,
                                                                creditMemo),
                                 days |-> days, issue |-> invoice_date,
                                 due |-> invoice_date + days]
                     IN /\ genResult' =
                             [reply |-> reply, rendered |-> TRUE,
                              ret |-> IF written
                                        THEN [kind |-> "path", number |-> doc.number]
                                        ELSE PyNone]
                        /\ pdfDoc' = IF written THEN doc ELSE pdfDoc
  /\ UNCHANGED <<companyFile, companySheet, envDays, details, previewTerms>>

\* no company details are loaded
CompanyStateInit ==
  /\ details = NoValue
  /\ genResult = NoValue
  /\ pdfDoc = NoValue
  /\ previewTerms = NoValue
  /\ companyOps = 0

CompanyIdle ==
  /\ companyFile = CompanyFileAbsent
  /\ companySheet = <<>>
  /\ envDays = Absent
  /\ CompanyStateInit

CompanyInit ==
  /\ companyFile \in CompanyFiles
  /\ companySheet \in CompanySheets
  /\ envDays \in EnvTerms
  /\ CompanyStateInit

(* Sheet rows read as customers and as tasks *)

\* row[i] if len(row) > i else '', with i counted from 1
Cell(row, i) == IF Len(row) >= i THEN row[i] ELSE <<>>

\* the columns of "Kunder!A:I" that hold text, in order
CustomerTextFields == <<"id", "name", "address", "cvr", "zip", "town", "phone", "email">>

\* the default hourly rate of a customer without one, 500.0, in 1/100 krone
DefaultHourlyRate == 50000

\* the columns of "Opgave!A:I", in order
TaskColumns == <<"date", "customer_name", "tasktype", "pricing_type", "description",
                 "time_minutes", "price", "discount_percentage", "sum">>

\* float(row[8]) if len(row) > 8 and row[8] else 500.0
HourlyRateOf(row) ==
  IF Len(row) > 8 /\ row[9] # <<>>
    THEN LET f == FloatOf(row[9]) IN
           IF f.kind = "finite" THEN [raised |-> FALSE, value |-> f.milli \div 10]
           ELSE [raised |-> TRUE]
    ELSE [raised |-> FALSE, value |-> DefaultHourlyRate]

\* the customer dictionary of a row
CustomerOf(row) ==
  [id |-> Cell(row, 1), name |-> Cell(row, 2), address |-> Cell(row, 3),
   cvr |-> Cell(row, 4), zip |-> Cell(row, 5), town |-> Cell(row, 6),
   phone |-> Cell(row, 7), email |-> Cell(row, 8),
   hourly_rate |-> HourlyRateOf(row).value]

\* the task dictionary of a row of nine cells
TaskOf(row) ==
  [date |-> row[1], customer_name |-> row[2], tasktype |-> row[3],
   pricing_type |-> row[4], description |-> row[5], time_minutes |-> row[6],
   price |-> row[7], discount_percentage |-> row[8], sum |-> row[9]]

\* customers_data[1:], nothing unless len(customers_data) > 1
DataRows(rows) == IF Len(rows) > 1 THEN Tail(rows) ELSE <<>>

\* get_customers for what read_sheet gave: rows of fewer than two cells are left
\* out; any exception (the read, float of the rate cell) gives []
GetCustomers(reply) ==
  IF reply.kind = "raised" THEN <<>>
  ELSE LET kept == SelectSeq(DataRows(reply.rows), LAMBDA row : Len(row) >= 2) IN
         IF \E i \in 1..Len(kept) : HourlyRateOf(kept[i]).raised
           THEN <<>>
           ELSE [i \in 1..Len(kept) |-> CustomerOf(kept[i])]

\* get_customer_tasks: the rows of at least nine cells of the customer
GetCustomerTasks(reply, customer_name) ==
  IF reply.kind = "raised" THEN <<>>
  ELSE LET kept == SelectSeq(DataRows(reply.rows),
                             LAMBDA row : Len(row) >= 9 /\ row[2] = customer_name)
       IN [i \in 1..Len(kept) |-> TaskOf(kept[i])]

\* the header rows of the two sheets
CustomerHeader == <<<<"I", "D">>, <<"N">>>>
TaskHeader == <<<<"D">>, <<"a">>>>

\* customer rows: a full row (nine cells) cut after n cells; the rate cell of a full
\* row is a number, empty or no number
FullCustomerRow(rate) ==
  <<<<"7">>, <<"a">>, <<"S">>, <<"1">>, <<"2">>, <<"T">>, <<"3">>, <<"e">>, rate>>

RateCells == {<<"7", "5", "0", ".", "5">>, <<>>, <<"a", "b", "c">>}

CustomerRows ==
  {Prefix(FullCustomerRow(<<>>), n) : n \in {0, 1, 2, 8}}
    \cup {FullCustomerRow(rate) : rate \in RateCells}

\* task rows of the customers "a" and "b": full, or without the trailing sum cell
FullTaskRow(name) ==
  <<<<"1">>, name, <<"t">>, <<"h">>, <<"d">>, <<"6", "0">>, <<"5">>, <<"0">>, <<"5">>>>

CustomerNames == {<<"a">>, <<"b">>}

TaskRows ==
  {<<>>} \cup {Prefix(FullTaskRow(name), n) : name \in CustomerNames, n \in {8, 9}}

\* a sheet: nothing, or the header and up to MaxDataRows rows
SheetsOf(header, rows) ==
  {<<>>} \cup {<<header>> \o data : data \in UNION {[1..n -> rows] : n \in 0..MaxDataRows}}

get_customers ==
  /\ \E reply \in {ReadRaised, ReadRows(customersSheet)} :
       customers' = [reply |-> reply, ret |-> GetCustomers(reply)]
  /\ UNCHANGED <<customersSheet, tasksSheet, customerTasks>>

get_customer_tasks ==
  /\ \E reply \in {ReadRaised, ReadRows(tasksSheet)}, customer_name \in CustomerNames :
       customerTasks' = [reply |-> reply, name |-> customer_name,
                         ret |-> GetCustomerTasks(reply, customer_name)]
  /\ UNCHANGED <<customersSheet, tasksSheet, customers>>

RowsIdle ==
  /\ customersSheet = <<>>
  /\ tasksSheet = <<>>
  /\ customers = NoValue
  /\ customerTasks = NoValue

RowsInit ==
  /\ customersSheet \in SheetsOf(CustomerHeader, CustomerRows)
  /\ tasksSheet \in SheetsOf(TaskHeader, TaskRows)
  /\ customers = NoValue
  /\ customerTasks = NoValue

----------------------------------------------------------------------------
(* Customer registration (CreateCustomer.py): validation and append to the sheet *)

CC_RequiredFields ==
  <<"customer_id", "company_name", "company_address", "company_cvr", "company_zip",
    "company_town", "company_phone", "company_email">>

\* '@' in s
HasAt(s) == \E i \in 1..Len(s) : s[i] = "@"

\* customer_id_exists on the rows get_existing_customers returned ([] when the
\* read raised): the header row is skipped, the first cells are compared unstripped
customer_id_exists(existing, customer_id) ==
  /\ Len(existing) > 1
  /\ \E i \in 2..Len(existing) :
       existing[i] # <<>> /\ existing[i][1] = customer_id

\* the errors of validate_customer_data, in the order they are appended
MissingErrors(customer_data) ==
  LET missing == SelectSeq(CC_RequiredFields,
                           LAMBDA f : Strip(customer_data[f]) = <<>>)
  IN [i \in 1..Len(missing) |-> [rule |-> "missing", field |-> missing[i]]]

EmailErrors(customer_data) ==
  LET email == Strip(customer_data["company_email"]) IN
    IF email # <<>> /\ ~HasAt(email)
      THEN <<[rule |-> "email", field |-> "company_email"]>>
      ELSE <<>>

DuplicateErrors(customer_data, existing) ==
  LET customer_id == Strip(customer_data["customer_id"]) IN
    IF customer_id # <<>> /\ customer_id_exists(existing, customer_id)
      THEN <<[rule |-> "duplicate", field |-> "customer_id"]>>
      ELSE <<>>

FirstErrorOnly(customer_data, existing) ==
  LET all == MissingErrors(customer_data) \o EmailErrors(customer_data)
               \o DuplicateErrors(customer_data, existing)
  IN IF all = <<>> THEN <<>> ELSE <<Head(all)>>

validate_customer_data(customer_data, existing) ==
  MissingErrors(customer_data) \o EmailErrors(customer_data)
    \o DuplicateErrors(customer_data, existing)

\* customer_row of add_customer
CustomerRowOf(customer_data) ==
  [i \in 1..Len(CC_RequiredFields) |-> customer_data[CC_RequiredFields[i]]]
    \o <<customer_data["hourly_rate"]>>

\* headers of setup_spreadsheet_headers, nine cells
CC_Headers ==
  <<<<"I">>, <<"N">>, <<"A">>, <<"C">>, <<"Z">>, <<"T">>, <<"P">>, <<"E">>, <<"H">>>>

\* the customer data of the model: the identifier, the name and the email vary
CustomerIds == {<<"7">>, <<" ", "7">>, <<"8">>, <<>>}
CompanyNames == {<<"N">>, <<" ">>}
CompanyEmails == {<<"e", "@", "x">>, <<"e", "x">>, <<>>}

CustomerData ==
  {[customer_id |-> id, company_name |-> n, company_address |-> <<"S">>,
    company_cvr |-> <<"1">>, company_zip |-> <<"2">>, company_town |-> <<"T">>,
    company_phone |-> <<"3">>, company_email |-> e, hourly_rate |-> <<"5", "0", "0">>] :
     id \in CustomerIds, n \in CompanyNames, e \in CompanyEmails}

\* a customer as an earlier run registered it
RegisteredCustomer ==
  CustomerRowOf(CHOOSE d \in CustomerData :
                  /\ d.customer_id = <<"7">>
                  /\ d.company_name = <<"N">>
                  /\ d.company_email = <<"e", "@", "x">>)

\* setup_spreadsheet_headers: writes the headers to A1:I1 when the sheet read is
\* empty (or failed) or its first row has not nine cells; a failure is logged
setup_spreadsheet_headers ==
  /\ \E read_ok \in BOOLEAN, write_ok \in BOOLEAN :
       LET existing == IF read_ok THEN regSheet ELSE <<>> IN
         IF (existing = <<>> \/ Len(existing[1]) # Len(CC_Headers)) /\ write_ok
           THEN regSheet' = IF regSheet = <<>> THEN <<CC_Headers>>
                            ELSE [regSheet EXCEPT ![1] = CC_Headers]
           ELSE UNCHANGED regSheet
  /\ UNCHANGED <<lastAdd, adds>>

\* add_customer: validate, then append the row; False on errors or on a failure
add_customer ==
  /\ adds < MaxAdds
  /\ adds' = adds + 1
  /\ \E customer_data \in CustomerData, read_ok \in BOOLEAN, append_ok \in BOOLEAN :
       LET existing == IF read_ok THEN regSheet ELSE <<>>
           errors == validate_customer_data(customer_data, existing)
           appended == errors = <<>> /\ append_ok
       IN /\ regSheet' = IF appended
                           THEN Append(regSheet, CustomerRowOf(customer_data))
                           ELSE regSheet
          /\ lastAdd' = [data |-> customer_data, before |-> regSheet,
                         seen |-> existing, errors |-> errors, ret |-> appended,
                         after |-> regSheet']

CustomerIdle ==
  /\ regSheet = <<>>
  /\ lastAdd = NoValue
  /\ adds = 0

\* a new sheet, a sheet with its headers, a sheet with one customer
CustomerInit ==
  /\ regSheet \in {<<>>, <<CC_Headers>>, <<CC_Headers, RegisteredCustomer>>}
  /\ lastAdd = NoValue
  /\ adds = 0

----------------------------------------------------------------------------
(* send_invoice_email: configuration, message, SMTP conversation *)

\* str.lower() on the letters of the model's addresses
LowerChar(c) ==
  CASE c = "A" -> "a" [] c = "B" -> "b" [] c = "L" -> "l" [] c = "Q" -> "q"
    [] OTHER -> c

Lower(s) == [i \in 1..Len(s) |-> LowerChar(s[i])]

\* a in list
InSeq(a, list) == \E i \in 1..Len(list) : list[i] = a

RECURSIVE CleanCcKeepingTo(_, _)
CleanCcKeepingTo(cc_emails, customer_email) ==
  IF cc_emails = <<>> THEN <<>>
  ELSE LET rest == CleanCcKeepingTo(SubSeq(cc_emails, 1, Len(cc_emails) - 1),
                                    customer_email)
           a == Strip(cc_emails[Len(cc_emails)])
       IN IF a # <<>> /\ ~InSeq(a, rest) THEN Append(rest, a) ELSE rest

\* cc_emails_clean: the stripped addresses in order, without the empty ones, the
\* ones already taken and the ones equal to the To address but for case
RECURSIVE CleanCc(_, _)
CleanCc(cc_emails, customer_email) ==
  IF cc_emails = <<>> THEN <<>>
  ELSE LET rest == CleanCc(SubSeq(cc_emails, 1, Len(cc_emails) - 1), customer_email)
           a == Strip(cc_emails[Len(cc_emails)])
       IN IF a # <<>> /\ ~InSeq(a, rest) /\ Lower(a) # Lower(customer_email)
            THEN Append(rest, a)
            ELSE rest

ConfigErrorWithoutPassword(env, token) ==
  \/ ~env.port_ok
  \/ env.sender_email = <<>>
  \/ env.auth_method = "oauth" /\ token # "token"
  \/ env.auth_method \notin {"password", "oauth"}

\* the returns and exceptions before the message is built: SMTP_PORT is no
\* integer, no sender address, no token, no password, unknown method
ConfigError(env, token) ==
  \/ ~env.port_ok
  \/ env.sender_email = <<>>
  \/ env.auth_method = "oauth" /\ token # "token"
  \/ env.auth_method = "password" /\ env.sender_password = <<>>
  \/ env.auth_method \notin {"password", "oauth"}

\* the authentication command of the method
AuthStep(auth_method) == IF auth_method = "oauth" THEN "auth_xoauth2" ELSE "login"

SmtpStepsAuthFirst(auth_method) ==
  <<"connect", "ehlo", AuthStep(auth_method), "starttls", "ehlo", "sendmail", "quit">>

\* the calls on the SMTP connection, in order
SmtpSteps(auth_method) ==
  <<"connect", "ehlo", "starttls", "ehlo", AuthStep(auth_method), "sendmail", "quit">>

\* the position of the SMTP call that raises, 0 when none does
SmtpFaults == 0..7

\* send_invoice_email for an environment, a token acquisition outcome, a readable
\* or unreadable PDF and the SMTP step that raises (0: none); log: the SMTP calls
\* made; every exception is caught and gives False
SendInvoiceEmail(env, token, readable, fault, customer_email, cc_emails) ==
  LET cc_emails_clean == CleanCc(cc_emails, customer_email)
      steps == SmtpSteps(env.auth_method)
      made == IF fault = 0 THEN steps ELSE SubSeq(steps, 1, fault)
      submitted == InSeq("sendmail", made) /\ made[Len(made)] # "sendmail"
  IN IF ConfigError(env, token) \/ ~readable
       THEN [ret |-> FALSE, log |-> <<>>, to |-> customer_email, given |-> cc_emails,
             cc |-> cc_emails_clean, recipients |-> <<>>, submitted |-> FALSE,
             token |-> token, readable |-> readable]
       ELSE [ret |-> fault = 0, log |-> made, to |-> customer_email,
             given |-> cc_emails, cc |-> cc_emails_clean,
             recipients |-> IF InSeq("sendmail", made)
                              THEN <<customer_email>> \o cc_emails_clean
                              ELSE <<>>,
             submitted |-> submitted \/ fault = 0,
             token |-> token, readable |-> readable]

\* environments: SENDER_EMAIL, EMAIL_AUTH_METHOD, SENDER_PASSWORD, SMTP_PORT
MailEnvs ==
  [sender_email : {<<>>, <<"s">>}, auth_method : {"password", "oauth", "other"},
   sender_password : {<<>>, <<"p">>}, port_ok : BOOLEAN]

\* get_gmail_access_token: a token, None, or the module cannot be imported
TokenOutcomes == {"token", "none", "import_error"}

ToAddresses == {<<"a">>, <<"c">>}

CcAddresses == {<<"a">>, <<"A">>, <<" ", "a">>, <<"b">>, <<>>}

CcLists == UNION {[1..n -> CcAddresses] : n \in 0..MaxCc}

\* the calls and what each meets
MailArgs == [customer_email : ToAddresses, cc_emails : CcLists]

MailWorlds == [token : TokenOutcomes, readable : BOOLEAN, fault : SmtpFaults]

send_invoice_email ==
  /\ mail' = SendInvoiceEmail(mailEnv, mailWorld.token, mailWorld.readable,
                              mailWorld.fault, mailArgs.customer_email,
                              mailArgs.cc_emails)
  /\ UNCHANGED <<mailEnv, mailArgs, mailWorld>>

MailIdle ==
  /\ mailEnv = [sender_email |-> <<>>, auth_method |-> "password",
                sender_password |-> <<>>, port_ok |-> TRUE]
  /\ mailArgs = [customer_email |-> <<>>, cc_emails |-> <<>>]
  /\ mailWorld = [token |-> "none", readable |-> FALSE, fault |-> 0]
  /\ mail = NoValue

MailInit ==
  /\ mailEnv \in MailEnvs
  /\ mailArgs \in MailArgs
  /\ mailWorld \in MailWorlds
  /\ mail = NoValue

----------------------------------------------------------------------------
(* Steps 5 and 6 of main: the customer email and the bookkeeping copy *)

\* BOOKKEEPING_EMAIL when it is set
BookkeepingAddress == <<"b", "@">>

\* cc_list of Step 5: the stripped parts of the input that hold an '@', each once
RECURSIVE CcListOf(_)
CcListOf(parts) ==
  IF parts = <<>> THEN <<>>
  ELSE LET rest == CcListOf(SubSeq(parts, 1, Len(parts) - 1))
           addr == Strip(parts[Len(parts)])
       IN IF addr # <<>> /\ HasAt(addr) /\ ~InSeq(addr, rest)
            THEN Append(rest, addr)
            ELSE rest

\* skip_bookkeeping: the bookkeeping address is in the CC list of Step 5; the list
\* is not defined when the customer email was not sent
SkipBookkeeping(send, bookkeeping) ==
  /\ send.sending
  /\ \E i \in 1..Len(send.cc_list) : Lower(send.cc_list[i]) = Lower(bookkeeping)

\* the parts of the CC input, split at the commas
CcParts == {<<"b", "@">>, <<"B", "@">>, <<"d", "@">>, <<"d">>, <<>>}

CcInputs == UNION {[1..n -> CcParts] : n \in 0..MaxCc}

\* a working mail configuration; the send succeeds or the connection fails
FlowMailEnv ==
  [sender_email |-> <<"s">>, auth_method |-> "password", sender_password |-> <<"p">>,
   port_ok |-> TRUE]

FlowFaults == {0, 1}

\* Step 5: the customer email, when the customer has an address and the user (or
\* --yes) says so
step5_send_email ==
  /\ flowPc = "generated"
  /\ flowPc' = "emailed"
  /\ IF flowIn.customer_email = <<>>
       THEN customerSend' = [asked |-> FALSE, sending |-> FALSE, ret |-> FALSE,
                             cc_list |-> <<>>]
       ELSE \E send_email \in IF flowIn.yes THEN {"y"} ELSE {"y", "n"} :
              IF send_email # "y"
                THEN customerSend' = [asked |-> TRUE, sending |-> FALSE, ret |-> FALSE,
                                      cc_list |-> <<>>]
                ELSE \E parts \in IF flowIn.yes THEN {<<>>} ELSE CcInputs,
                        fault \in FlowFaults :
                       LET cc_list == CcListOf(parts)
                           sent == SendInvoiceEmail(FlowMailEnv, "none", TRUE, fault,
                                                    flowIn.customer_email, cc_list)
                       IN customerSend' = [asked |-> TRUE, sending |-> TRUE,
                                           ret |-> sent.ret, cc_list |-> cc_list]
  /\ UNCHANGED <<flowIn, bookSend>>

\* Step 6: the bookkeeping copy, offered unless the address was in the CC list
step6_bookkeeping_copy ==
  /\ flowPc = "emailed"
  /\ flowPc' = "done"
  /\ IF flowIn.bookkeeping = <<>>
       THEN bookSend' = [offered |-> FALSE, sending |-> FALSE, ret |-> FALSE]
       ELSE IF SkipBookkeeping(customerSend, flowIn.bookkeeping)
         THEN bookSend' = [offered |-> FALSE, sending |-> FALSE, ret |-> FALSE]
         ELSE \E copy_choice \in IF flowIn.yes THEN {"y"} ELSE {"y", "n"} :
                IF copy_choice # "y"
                  THEN bookSend' = [offered |-> TRUE, sending |-> FALSE, ret |-> FALSE]
                  ELSE \E fault \in FlowFaults :
                         bookSend' =
                           [offered |-> TRUE, sending |-> TRUE,
                            ret |-> SendInvoiceEmail(FlowMailEnv, "none", TRUE, fault,
                                                     flowIn.bookkeeping, <<>>).ret]
  /\ UNCHANGED <<flowIn, customerSend>>

FlowIdle ==
  /\ flowPc = "idle"
  /\ flowIn = [customer_email |-> <<>>, yes |-> FALSE, bookkeeping |-> <<>>]
  /\ customerSend = NoValue
  /\ bookSend = NoValue

\* the invoice PDF is generated; the customer has an email address or none, --yes
\* is given or not, BOOKKEEPING_EMAIL is set or empty
FlowInit ==
  /\ flowPc = "generated"
  /\ flowIn \in [customer_email : {<<>>, <<"c", "@">>}, yes : BOOLEAN,
                 bookkeeping : {<<>>, BookkeepingAddress}]
  /\ customerSend = NoValue
  /\ bookSend = NoValue

----------------------------------------------------------------------------
(* select_tasks: the task selection prompt *)

\* selection.split(',')
RECURSIVE Split(_)
Split(s) ==
  IF ~InSeq(",", s) THEN <<s>>
  ELSE LET i == CHOOSE j \in 1..Len(s) : s[j] = "," /\ \A h \in 1..(j - 1) : s[h] # ","
       IN <<SubSeq(s, 1, i - 1)>> \o Split(SubSeq(s, i + 1, Len(s)))

\* task_indices = [int(x.strip()) - 1 for x in selection.split(',')]: raised when
\* one part is no integer
TaskIndices(selection) ==
  LET parts == Split(selection) IN
    IF \A i \in 1..Len(parts) : IntOf(parts[i]).ok
      THEN [raised |-> FALSE, indices |-> [i \in 1..Len(parts) |-> IntOf(parts[i]).val - 1]]
      ELSE [raised |-> TRUE]

\* what select_tasks returns: None, or the list of the tasks at the positions
Picked(tasks, positions) ==
  [kind |-> "list", positions |-> positions,
   tasks |-> [i \in 1..Len(positions) |-> tasks[positions[i]]]]

\* one pass of the prompt loop of select_tasks for the text entered: the value
\* returned, or returned |-> FALSE when the loop asks again
SelectPrompt(tasks, selection) ==
  IF Lower(selection) = <<"q">> THEN [returned |-> TRUE, ret |-> PyNone]
  ELSE IF Lower(selection) = <<"a", "l", "l">>
    THEN [returned |-> TRUE, ret |-> Picked(tasks, [i \in 1..Len(tasks) |-> i])]
  ELSE LET parsed == TaskIndices(selection) IN
    IF parsed.raised THEN [returned |-> FALSE]
    ELSE IF \A i \in 1..Len(parsed.indices) :
              0 <= parsed.indices[i] /\ parsed.indices[i] < Len(tasks)
      THEN [returned |-> TRUE,
            ret |-> Picked(tasks, [i \in 1..Len(parsed.indices) |-> parsed.indices[i] + 1])]
      ELSE [returned |-> FALSE]

\* the tasks offered: none, one or two
OfferedTasks == {<<>>, <<Task1>>, <<Task1, Task2>>}

\* texts entered at "Selection (or 'q' to quit): "
Selections ==
  {<<"q">>, <<"Q">>, <<" ", "q">>, <<"a", "l", "l">>, <<"A", "L", "L">>, <<>>,
   <<"1">>, <<"2">>, <<"1", ",", "2">>, <<"2", ",", "1">>, <<"1", ",", "1">>,
   <<" ", "1", " ", ",", " ", "2">>, <<"0">>, <<"3">>, <<"1", ",", "3">>,
   <<"-", "1">>, <<"x">>, <<"1", ",", "x">>, <<"1", ",">>}

\* select_tasks up to its prompt: None at once when no task is offered
select_tasks ==
  /\ selectPc = "called"
  /\ IF offered = <<>>
       THEN selectRet' = PyNone /\ selectPc' = "returned"
       ELSE selectRet' = selectRet /\ selectPc' = "prompting"
  /\ UNCHANGED <<offered, entered>>

\* one pass of the prompt loop
select_tasks_prompt ==
  /\ selectPc = "prompting"
  /\ Len(entered) < MaxPrompts
  /\ \E selection \in Selections :
       LET r == SelectPrompt(offered, selection) IN
         /\ entered' = Append(entered, selection)
         /\ IF r.returned
              THEN selectRet' = r.ret /\ selectPc' = "returned"
              ELSE UNCHANGED <<selectRet, selectPc>>
  /\ UNCHANGED offered

SelectIdle ==
  /\ selectPc = "idle"
  /\ offered = <<>>
  /\ entered = <<>>
  /\ selectRet = NoValue

SelectInit ==
  /\ selectPc = "called"
  /\ offered \in OfferedTasks
  /\ entered = <<>>
  /\ selectRet = NoValue

----------------------------------------------------------------------------
(* Two invocations of get_next_invoice_number on one counter file.  The file *)
(* is not locked, so the steps of the two interleave: the read of the file,  *)
(* the increment, open(..., 'w') that empties the file, json.dump.           *)

Invocations == {1, 2}

NoLocals == [current_number |-> NoValue, next_number |-> NoValue, outcome |-> "none"]

\* the invocation has read the file and not yet returned
InProgress(p) == racePc[p] \notin {"called", "returned"}

\* return value: the invocation hands out the number
Return(p, value) ==
  /\ racePc' = [racePc EXCEPT ![p] = "returned"]
  /\ raceRet' = [raceRet EXCEPT ![p] = value]
  /\ issued' = Append(issued, value)

\* the history of the counter that the invocations leave alone
counterHistory == <<initFile, savedAtReturn, writesOk, outcomes, lastPeek, peekAtAlloc,
                    peeks>>

\* os.path.exists, json.load, config.get: an exception gives the fallback 785
race_read(p) ==
  /\ racePc[p] = "called"
  /\ LET cur == LoadCurrentNumber(counterFile) IN
       IF cur.raised
         THEN Return(p, JInt(FallbackInvoiceNumber)) /\ UNCHANGED raceLocal
         ELSE /\ racePc' = [racePc EXCEPT ![p] = "read"]
              /\ raceLocal' = [raceLocal EXCEPT ![p].current_number = cur.value]
              /\ UNCHANGED <<raceRet, issued>>
  /\ raceOverlap' = (raceOverlap \/ \E q \in Invocations \ {p} : InProgress(q))
  /\ UNCHANGED <<counterFile, counterHistory>>

\* next_number = current_number + 1: a TypeError gives the fallback 785
race_increment(p) ==
  /\ racePc[p] = "read"
  /\ IF IsNumber(raceLocal[p].current_number)
       THEN /\ racePc' = [racePc EXCEPT ![p] = "incremented"]
            /\ raceLocal' = [raceLocal EXCEPT
                 ![p].next_number = NextNumber(raceLocal[p].current_number)]
            /\ UNCHANGED <<raceRet, issued>>
       ELSE Return(p, JInt(FallbackInvoiceNumber)) /\ UNCHANGED raceLocal
  /\ UNCHANGED <<counterFile, counterHistory, raceOverlap>>

\* _save_invoice_number up to open(..., 'w'): the file is emptied, or the write
\* fails before and the number is returned unsaved
race_open(p) ==
  /\ racePc[p] = "incremented"
  /\ \E outcome \in WriteOutcomes :
       /\ raceLocal' = [raceLocal EXCEPT ![p].outcome = outcome]
       /\ IF outcome = "fail_unchanged"
            THEN Return(p, raceLocal[p].next_number) /\ UNCHANGED counterFile
            ELSE /\ racePc' = [racePc EXCEPT ![p] = "opened"]
                 /\ counterFile' = FileInvalid
                 /\ UNCHANGED <<raceRet, issued>>
  /\ UNCHANGED <<counterHistory, raceOverlap>>

\* json.dump and the return of next_number; a failed dump is logged and swallowed
race_dump(p) ==
  /\ racePc[p] = "opened"
  /\ counterFile' = IF raceLocal[p].outcome = "ok"
                      THEN FileWith(raceLocal[p].next_number)
                      ELSE counterFile
  /\ Return(p, raceLocal[p].next_number)
  /\ UNCHANGED <<counterHistory, raceLocal, raceOverlap>>

RaceIdle ==
  /\ racePc = [p \in Invocations |-> "idle"]
  /\ raceLocal = [p \in Invocations |-> NoLocals]
  /\ raceRet = [p \in Invocations |-> NoValue]
  /\ raceOverlap = FALSE

\* both invocations are called
RaceInit ==
  /\ racePc = [p \in Invocations |-> "called"]
  /\ raceLocal = [p \in Invocations |-> NoLocals]
  /\ raceRet = [p \in Invocations |-> NoValue]
  /\ raceOverlap = FALSE

----------------------------------------------------------------------------
(* main of CreateInvoice.py: one run of the invoice creation flow.  A step   *)
(* of the model is one prompt answered, one blocking call made, or the       *)
(* interrupt signal (KeyboardInterrupt) arriving at the current position.    *)

\* the file name of the PDF and the pattern main searches in pdf_path
Faktura == <<"f", "a", "k", "t", "u", "r", "a", "_">>

\* invoice_date.strftime('%Y%m%d')
InvoiceDay == <<"2", "0", "2", "5", "0", "9", "2", "9">>

\* str(invoice_number) in the f-string of the file name
FormatNumber(number) ==
  IF number.type = "int"
    THEN (IF number.val < 0 THEN <<"-">> \o DigitsOf(-number.val) ELSE DigitsOf(number.val))
    ELSE DigitsOf(number.val) \o <<".", "5">>

\* f"faktura_{invoice_number}_{date}.pdf"
PdfFileName(number) ==
  Faktura \o FormatNumber(number) \o <<"_">> \o InvoiceDay \o <<".", "p", "d", "f">>

\* os.path.join(INVOICES_DIR, filename), INVOICES_DIR = os.getcwd() + '/invoices'
PdfPath(cwd, number) ==
  cwd \o <<"/", "i", "n", "v", "o", "i", "c", "e", "s", "/">> \o PdfFileName(number)

\* the number of digits s starts with
RECURSIVE LeadingDigits(_)
LeadingDigits(s) ==
  IF s # <<>> /\ IsDigit(Head(s)) THEN 1 + LeadingDigits(Tail(s)) ELSE 0

\* r'faktura_(\d+)_' matches at position i of the path
MatchesAt(path, i) ==
  /\ i + Len(Faktura) - 1 <= Len(path)
  /\ SubSeq(path, i, i + Len(Faktura) - 1) = Faktura
  /\ LET rest == SubSeq(path, i + Len(Faktura), Len(path))
         n == LeadingDigits(rest)
     IN n >= 1 /\ Len(rest) > n /\ rest[n + 1] = "_"

\* re.search(r'faktura_(\d+)_', pdf_path) and int(match.group(1)): the leftmost
\* match in the whole path
ReSearch(path) ==
  IF \E i \in 1..Len(path) : MatchesAt(path, i)
    THEN LET i == CHOOSE j \in 1..Len(path) :
                    MatchesAt(path, j) /\ \A h \in 1..(j - 1) : ~MatchesAt(path, h)
             rest == SubSeq(path, i + Len(Faktura), Len(path))
         IN [matched |-> TRUE, number |-> DigitsValue(SubSeq(rest, 1, LeadingDigits(rest)))]
    ELSE [matched |-> FALSE]

\* the answers to a (y/N) prompt after strip().lower(): yes, no, the quit token
YesNoQuit == {"y", "n", "q"}

\* the positions at which the process has ended
Terminal == {"cancelled", "done", "failed", "killed"}

\* what the step did about input: a text was typed at the prompt (quit: it was
\* 'q'), --yes answered in its place, the interrupt arrived, or no input was read
Typed(prompt, quit) == [prompt |-> prompt, how |-> "typed", quit |-> quit]
Auto(prompt) == [prompt |-> prompt, how |-> "auto", quit |-> FALSE]
Computed(prompt) == [prompt |-> prompt, how |-> "computed", quit |-> FALSE]
Interrupted(prompt) == [prompt |-> prompt, how |-> "interrupt", quit |-> FALSE]

\* the run goes on at a position; the process ends with an exit code
Goes(pc) == runPc' = pc /\ UNCHANGED exitCode
Ends(pc, code) == runPc' = pc /\ exitCode' = <<code>>

runChoice == <<runSel, runGate, runFlags>>
runOutput == <<runAlloc, runPdf, runTrace, runUses, runSend>>
runFiles == <<counterFile, ledgerFile>>

\* Credit_memo(), called before the try block of main: any answer but 'y' is no
Credit_memo ==
  /\ runPc = "credit_memo"
  /\ \E choice \in YesNoQuit : runLast' = Typed("credit_memo", choice = "q")
  /\ Goes("startup")
  /\ UNCHANGED <<runIn, runChoice, runOutput, runFiles>>

\* the company details file is there and the sheets client is built, or exit 1
main_startup ==
  /\ runPc = "startup"
  /\ \E found \in BOOLEAN :
       IF found THEN Goes("select_customer") ELSE Ends("failed", 1)
  /\ runLast' = Computed("startup")
  /\ UNCHANGED <<runIn, runChoice, runOutput, runFiles>>

\* Step 1: get_customers and select_customer
main_select_customer ==
  /\ runPc = "select_customer"
  /\ \E any \in BOOLEAN :
       IF ~any
         THEN runLast' = Computed("select_customer") /\ Ends("cancelled", 0)
         ELSE \E selection \in {"q", "1", "x"} :
                /\ runLast' = Typed("select_customer", selection = "q")
                /\ CASE selection = "q" -> Ends("cancelled", 0)
                     [] selection = "1" -> Goes("select_tasks")
                     [] OTHER -> Goes("select_customer")
  /\ UNCHANGED <<runIn, runChoice, runOutput, runFiles>>

\* texts entered at the task selection prompt of the run
RunSelections == {<<"q">>, <<"1">>, <<"2">>, <<"1", ",", "2">>, <<"x">>}

\* select_tasks(customer_tasks) at one of its three call sites: None cancels the
\* run, a list becomes selected_tasks
SelectStep(at, to) ==
  /\ runPc = at
  /\ IF runIn.tasks = <<>>
       THEN /\ runLast' = Computed(at)
            /\ Ends("cancelled", 0)
            /\ UNCHANGED runSel
       ELSE \E selection \in RunSelections :
              LET r == SelectPrompt(runIn.tasks, selection) IN
                /\ runLast' = Typed(at, Lower(selection) = <<"q">>)
                /\ IF ~r.returned THEN Goes(at) /\ UNCHANGED runSel
                   ELSE IF r.ret = PyNone THEN Ends("cancelled", 0) /\ UNCHANGED runSel
                   ELSE Goes(to) /\ runSel' = r.ret.tasks

\* Step 2: get_customer_tasks and select_tasks, then the summary and the preview
main_select_tasks ==
  /\ SelectStep("select_tasks", "duplicates")
  /\ UNCHANGED <<runIn, runGate, runFlags, runOutput, runFiles>>

\* the re-selection after a declined override
main_reselect_tasks ==
  /\ SelectStep("reselect", "duplicates")
  /\ UNCHANGED <<runIn, runGate, runFlags, runOutput, runFiles>>

\* the re-selection of "adjust the task selection"
main_adjust_tasks ==
  /\ SelectStep("adjust_select", "adjust_confirm")
  /\ runFlags' = [runFlags EXCEPT !.adjusted = TRUE]
  /\ UNCHANGED <<runIn, runGate, runOutput, runFiles>>

\* warn_already_invoiced(selected_tasks) in the loop of main: it asks only when a
\* selected task is in the ledger, and it never looks at --yes
main_warn_already_invoiced ==
  /\ runPc = "duplicates"
  /\ IF AlreadyInvoiced(load_invoiced_tasks(ledgerFile), runSel) = <<>>
       THEN /\ runLast' = Computed("override")
            /\ runGate' = [tasks |-> runSel, how |-> "clean"]
            /\ Goes("confirm")
       ELSE \E choice \in YesNoQuit :
              /\ runLast' = Typed("override", choice = "q")
              /\ CASE choice = "y" -> /\ runGate' = [tasks |-> runSel, how |-> "override"]
                                      /\ Goes("confirm")
                   [] choice = "n" -> Goes("reselect") /\ UNCHANGED runGate
                   [] OTHER -> Goes("duplicates") /\ UNCHANGED runGate
  /\ UNCHANGED <<runIn, runSel, runFlags, runOutput, runFiles>>

\* "Do you want to generate this invoice?", answered by --yes when given
main_confirm ==
  /\ runPc = "confirm"
  /\ IF runIn.yes
       THEN /\ runLast' = Auto("generate")
            /\ runFlags' = [runFlags EXCEPT !.confirmed = TRUE]
            /\ Goes("generate")
       ELSE \E confirm \in YesNoQuit :
              /\ runLast' = Typed("generate", confirm = "q")
              /\ IF confirm = "y"
                   THEN runFlags' = [runFlags EXCEPT !.confirmed = TRUE] /\ Goes("generate")
                   ELSE UNCHANGED runFlags /\ Goes("adjust")
  /\ UNCHANGED <<runIn, runSel, runGate, runOutput, runFiles>>

\* "Would you like to adjust the task selection instead?"
main_adjust ==
  /\ runPc = "adjust"
  /\ \E adjust \in YesNoQuit :
       /\ runLast' = Typed("adjust", adjust = "q")
       /\ CASE adjust = "y" -> Goes("adjust_select")
            [] adjust = "n" -> Ends("cancelled", 0)
            [] OTHER -> Goes("adjust")
  /\ UNCHANGED <<runIn, runChoice, runOutput, runFiles>>

\* "Generate invoice now with updated tasks?": 'y' leaves the loop for Step 4
main_adjust_confirm ==
  /\ runPc = "adjust_confirm"
  /\ \E continue_confirm \in YesNoQuit :
       /\ runLast' = Typed("generate_updated", continue_confirm = "q")
       /\ IF continue_confirm = "y"
            THEN runFlags' = [runFlags EXCEPT !.confirmed = TRUE] /\ Goes("generate")
            ELSE UNCHANGED runFlags /\ Goes("adjust")
  /\ UNCHANGED <<runIn, runSel, runGate, runOutput, runFiles>>

AfterCompanyDetailsAlways(loaded) == "numbering"

\* generate_invoice: without company details it returns None before a number is
\* taken
AfterCompanyDetails(loaded) == IF loaded THEN "numbering" ELSE "failed"

\* Step 4, generate_invoice up to the company details; None ends the run, exit 1
generate_load_company_details ==
  /\ runPc = "generate"
  /\ \E loaded \in BOOLEAN :
       /\ runPc' = AfterCompanyDetails(loaded)
       /\ exitCode' = IF runPc' = "failed" THEN <<1>> ELSE exitCode
       /\ runTrace' = IF loaded THEN Append(runTrace, "details") ELSE runTrace
  /\ runLast' = Computed("generate")
  /\ UNCHANGED <<runIn, runChoice, runAlloc, runPdf, runUses, runSend, runFiles>>

\* get_next_invoice_number
generate_allocate ==
  /\ runPc = "numbering"
  /\ \E outcome \in WriteOutcomes :
       LET r == GetNext(counterFile, outcome) IN
         /\ counterFile' = r.file
         /\ runAlloc' = [number |-> r.ret, file |-> r.file, outcome |-> outcome]
  /\ runTrace' = Append(runTrace, "allocate")
  /\ runLast' = Computed("numbering")
  /\ Goes("rendering")
  /\ UNCHANGED <<runIn, runChoice, runPdf, runUses, runSend, ledgerFile>>

\* generate_invoice_pdf: the path of the PDF, or it raises, generate_invoice
\* returns None and the run ends with exit code 1
generate_render ==
  /\ runPc = "rendering"
  /\ \E rendered \in BOOLEAN :
       IF rendered
         THEN /\ runPdf' = PdfPath(runIn.cwd, runAlloc.number)
              /\ runTrace' = Append(runTrace, "render")
              /\ Goes("upload")
         ELSE /\ runTrace' = Append(runTrace, "render_failed")
              /\ Ends("failed", 1)
              /\ UNCHANGED runPdf
  /\ runLast' = Computed("rendering")
  /\ UNCHANGED <<runIn, runChoice, runAlloc, runUses, runSend, runFiles>>

\* upload_to_drive: a failure is logged inside
main_upload_to_drive ==
  /\ runPc = "upload"
  /\ \E uploaded \in BOOLEAN :
       runTrace' = Append(runTrace, IF uploaded THEN "upload" ELSE "upload_failed")
  /\ runLast' = Computed("upload")
  /\ Goes("record")
  /\ UNCHANGED <<runIn, runChoice, runAlloc, runPdf, runUses, runSend, runFiles>>

\* the invoice number is read back from pdf_path and the tasks are recorded
\* under it; without a match nothing is recorded
main_record_invoiced_tasks ==
  /\ runPc = "record"
  /\ LET match == ReSearch(runPdf) IN
       IF match.matched
         THEN /\ \E outcome \in WriteOutcomes :
                   ledgerFile' =
                     save_invoiced_tasks(
                       ledgerFile,
                       RecordLoop(load_invoiced_tasks(ledgerFile), runSel, match.number,
                                  clock),
                       outcome)
              /\ runTrace' = Append(runTrace, "record")
              /\ runUses' = Append(runUses, [use |-> "ledger", number |-> match.number])
         ELSE UNCHANGED <<ledgerFile, runTrace, runUses>>
  /\ runLast' = Computed("record")
  /\ Goes("email")
  /\ UNCHANGED <<runIn, runChoice, runAlloc, runPdf, runSend, counterFile>>

\* the CC input of Step 5: nothing, or the bookkeeping address
RunCcInputs == {<<>>, <<BookkeepingAddress>>}

\* Step 5: the customer email under the number read back from pdf_path, 785
\* without a match
main_send_email ==
  /\ runPc = "email"
  /\ Goes("bookkeeping")
  /\ IF runIn.email = <<>>
       THEN runLast' = Computed("send") /\ UNCHANGED <<runTrace, runUses, runSend>>
       ELSE \E send_email \in IF runIn.yes THEN {"y"} ELSE YesNoQuit :
              /\ runLast' = IF runIn.yes THEN Auto("send")
                            ELSE Typed("send", send_email = "q")
              /\ IF send_email # "y"
                   THEN UNCHANGED <<runTrace, runUses, runSend>>
                   ELSE \E parts \in IF runIn.yes THEN {<<>>} ELSE RunCcInputs :
                          LET match == ReSearch(runPdf) IN
                            /\ runSend' = [sending |-> TRUE, cc_list |-> CcListOf(parts)]
                            /\ runTrace' = Append(runTrace, "send_customer")
                            /\ runUses' =
                                 Append(runUses,
                                        [use |-> "customer",
                                         number |-> IF match.matched THEN match.number
                                                    ELSE FallbackInvoiceNumber])
  /\ UNCHANGED <<runIn, runChoice, runAlloc, runPdf, runFiles>>

\* the number of the bookkeeping copy: generated_invoice_number, or the number
\* read back from pdf_path, 0 without a match
CopyNumber(uses, path) ==
  IF \E i \in 1..Len(uses) : uses[i].use = "ledger"
    THEN uses[CHOOSE i \in 1..Len(uses) : uses[i].use = "ledger"].number
    ELSE IF ReSearch(path).matched THEN ReSearch(path).number ELSE 0

\* Step 6: the bookkeeping copy, then "Invoice creation completed" and the return
main_bookkeeping_copy ==
  /\ runPc = "bookkeeping"
  /\ IF SkipBookkeeping(runSend, BookkeepingAddress)
       THEN runLast' = Computed("copy") /\ runTrace' = Append(runTrace, "done")
            /\ UNCHANGED runUses
       ELSE \E copy_choice \in IF runIn.yes THEN {"y"} ELSE YesNoQuit :
              /\ runLast' = IF runIn.yes THEN Auto("copy")
                            ELSE Typed("copy", copy_choice = "q")
              /\ IF copy_choice # "y"
                   THEN runTrace' = Append(runTrace, "done") /\ UNCHANGED runUses
                   ELSE /\ runTrace' = runTrace \o <<"send_copy", "done">>
                        /\ runUses' = Append(runUses,
                                             [use |-> "bookkeeping",
                                              number |-> CopyNumber(runUses, runPdf)])
  /\ Ends("done", 0)
  /\ UNCHANGED <<runIn, runChoice, runAlloc, runPdf, runSend, runFiles>>

\* the interrupt signal: KeyboardInterrupt is caught by main and ends the run
\* with exit code 0, but the credit memo prompt is outside the try block and the
\* exception leaves main there (exit status 1, or death by SIGINT, 130)
main_interrupt ==
  /\ runPc \notin Terminal
  /\ runLast' = Interrupted(runPc)
  /\ IF runPc = "credit_memo"
       THEN \E code \in {1, 130} : Ends("killed", code)
       ELSE Ends("cancelled", 0)
  /\ UNCHANGED <<runIn, runChoice, runOutput, runFiles>>

\* the two tasks of the customer
RunTasks == <<Task1, [Task1 EXCEPT !.date = <<"2">>]>>

\* the working directory: plain, or one whose name holds "faktura_", a number and
\* an underscore
Cwds == {<<"/", "w">>, <<"/", "s", "t", "_">> \o Faktura \o <<"2", "_", "x">>}

\* the ledger file before the run: none, or the first task invoiced under 700
RunLedgers ==
  {LedgerAbsent,
   LedgerDict(SetItem(EmptyDict, task_unique_key(Task1),
                      [invoice_number |-> 700, date |-> 0]))}

\* the counter file before the run
RunCounterFiles == {FileAbsent, FileInvalid, FileWith(JInt(900)), FileWith(JHalf(10))}

RunStateInit ==
  /\ runSel = <<>>
  /\ runGate = NoValue
  /\ runFlags = [adjusted |-> FALSE, confirmed |-> FALSE]
  /\ runAlloc = NoValue
  /\ runPdf = <<>>
  /\ runTrace = <<>>
  /\ runUses = <<>>
  /\ runSend = [sending |-> FALSE, cc_list |-> <<>>]
  /\ runLast = Computed("none")
  /\ exitCode = <<>>

RunIdle ==
  /\ runPc = "idle"
  /\ runIn = [yes |-> FALSE, cwd |-> <<>>, email |-> <<>>, tasks |-> <<>>,
              ledger |-> LedgerAbsent]
  /\ RunStateInit

\* the run starts: -y or not, the working directory, the customer's email address,
\* the tasks of the customer, the ledger file
RunInit ==
  /\ runPc = "credit_memo"
  /\ runIn \in [yes : BOOLEAN, cwd : Cwds, email : {<<>>, <<"c", "@">>},
                tasks : {<<>>, RunTasks}, ledger : RunLedgers]
  /\ RunStateInit

\* the specifications after SpecFlow are idle
MoreIdle == SelectIdle /\ RaceIdle /\ RunIdle

\* no invoice is computed
CalcIdle ==
  /\ selected = <<>>
  /\ hourlyRate = 50000
  /\ creditMemo = FALSE
  /\ calcPc = "idle"
  /\ summary = NoValue
  /\ preview = NoValue
  /\ pdf = NoValue

\* a customer and a selection of the customer's tasks
CalcInit ==
  /\ selected \in UNION {[1..n -> CalcTasks] : n \in 1..MaxTasks}
  /\ hourlyRate \in HourlyRates
  /\ creditMemo \in BOOLEAN
  /\ calcPc = "selected"
  /\ summary = NoValue
  /\ preview = NoValue
  /\ pdf = NoValue

CounterInit ==
  /\ counterFile \in CounterFiles
  /\ initFile = counterFile
  /\ issued = <<>>
  /\ savedAtReturn = <<>>
  /\ writesOk = TRUE
  /\ outcomes = <<>>
  /\ lastPeek = NoValue
  /\ peekAtAlloc = NoValue
  /\ peeks = 0

\* the counter is not used
CounterIdle ==
  /\ counterFile = FileAbsent
  /\ initFile = FileAbsent
  /\ issued = <<>>
  /\ savedAtReturn = <<>>
  /\ writesOk = TRUE
  /\ outcomes = <<>>
  /\ lastPeek = NoValue
  /\ peekAtAlloc = NoValue
  /\ peeks = 0

LedgerStateInit ==
  /\ clock = 1
  /\ recT = <<>>
  /\ recK = 0
  /\ recOutcome = "none"
  /\ chkT = <<>>
  /\ chkHits = <<>>
  /\ chkResult = "none"
  /\ ledgerOps = 0
  /\ keyA = NoValue
  /\ keyB = NoValue

\* the tasks and the history of the ledger specifications are not used
LedgerIdleBut ==
  /\ taskA = Task1
  /\ taskB = Task1
  /\ changed = "none"
  /\ LedgerStateInit

\* the ledger is not used
LedgerIdle ==
  /\ ledgerFile = LedgerAbsent
  /\ LedgerIdleBut

\* a ledger file as an earlier run left it, and two tasks of one customer: the
\* second has another sum, or the same sum written with a leading blank
LedgerInit ==
  /\ taskA = Task1
  /\ changed = "sum"
  /\ taskB \in {[Task1 EXCEPT !.sum = <<"9">>], [Task1 EXCEPT !.sum = <<" ", "5">>]}
  /\ ledgerFile \in
       {LedgerAbsent, LedgerInvalid, LedgerNotDict,
        LedgerDict(SetItem(SetItem(EmptyDict, task_unique_key(Task1),
                                   [invoice_number |-> 899, date |-> 0]),
                           <<"o">>, [invoice_number |-> 898, date |-> 0]))}
  /\ LedgerStateInit

\* two tasks that differ in exactly one field
KeyInit ==
  /\ taskA \in {Task1, Task2}
  /\ changed \in {TaskFields[i] : i \in 1..Len(TaskFields)}
  /\ taskB \in {[taskA EXCEPT ![changed] = v] : v \in Variants(taskA[changed])}
  /\ ledgerFile = LedgerAbsent
  /\ LedgerStateInit

\* the specifications after SpecCalc are idle
ExtIdle == CompanyIdle /\ RowsIdle /\ CustomerIdle /\ MailIdle /\ FlowIdle /\ MoreIdle

Init == CounterInit /\ LedgerIdle /\ CalcIdle /\ ExtIdle

Next ==
  \/ get_next_invoice_number /\ UNCHANGED <<ledgerVars, calcVars, extVars>>
  \/ peek_next_invoice_number /\ UNCHANGED <<ledgerVars, calcVars, extVars>>

Spec == Init /\ [][Next]_vars

InitLedger == CounterIdle /\ LedgerInit /\ CalcIdle /\ ExtIdle

NextLedger ==
  \/ record_invoiced_tasks /\ UNCHANGED <<counterVars, calcVars, extVars>>
  \/ warn_already_invoiced /\ UNCHANGED <<counterVars, calcVars, extVars>>

SpecLedger == InitLedger /\ [][NextLedger]_vars

InitKey == CounterIdle /\ KeyInit /\ CalcIdle /\ ExtIdle

NextKey == fingerprint_tasks /\ UNCHANGED <<counterVars, calcVars, extVars>>

SpecKey == InitKey /\ [][NextKey]_vars

InitCalc == CounterIdle /\ LedgerIdle /\ CalcInit /\ ExtIdle

NextCalc ==
  \/ calculate_invoice_summary /\ UNCHANGED <<counterVars, ledgerVars, extVars>>
  \/ invoice_preview /\ UNCHANGED <<counterVars, ledgerVars, extVars>>
  \/ generate_invoice /\ UNCHANGED <<counterVars, ledgerVars, extVars>>

SpecCalc == InitCalc /\ [][NextCalc]_vars

InitCompany == CounterIdle /\ LedgerIdle /\ CalcIdle /\ CompanyInit /\ RowsIdle /\ CustomerIdle /\ MailIdle /\ FlowIdle /\ MoreIdle

NextCompany ==
  \/ load_company_details /\ UNCHANGED <<counterVars, ledgerVars, calcVars, rowVars, customerVars, mailVars, flowVars, moreVars>>
  \/ preview_payment_terms /\ UNCHANGED <<counterVars, ledgerVars, calcVars, rowVars, customerVars, mailVars, flowVars, moreVars>>
  \/ InvoiceManager_generate_invoice /\ UNCHANGED <<ledgerVars, calcVars, rowVars, customerVars, mailVars, flowVars, moreVars>>

SpecCompany == InitCompany /\ [][NextCompany]_vars

InitRows == CounterIdle /\ LedgerIdle /\ CalcIdle /\ CompanyIdle /\ RowsInit /\ CustomerIdle /\ MailIdle /\ FlowIdle /\ MoreIdle

NextRows ==
  \/ get_customers /\ UNCHANGED <<counterVars, ledgerVars, calcVars, companyVars, customerVars, mailVars, flowVars, moreVars>>
  \/ get_customer_tasks /\ UNCHANGED <<counterVars, ledgerVars, calcVars, companyVars, customerVars, mailVars, flowVars, moreVars>>

SpecRows == InitRows /\ [][NextRows]_vars

InitCustomer ==
  CounterIdle /\ LedgerIdle /\ CalcIdle /\ CompanyIdle /\ RowsIdle /\ CustomerInit /\ MailIdle /\ FlowIdle /\ MoreIdle

NextCustomer ==
  \/ setup_spreadsheet_headers
       /\ UNCHANGED <<counterVars, ledgerVars, calcVars, companyVars, rowVars, mailVars, flowVars, moreVars>>
  \/ add_customer
       /\ UNCHANGED <<counterVars, ledgerVars, calcVars, companyVars, rowVars, mailVars, flowVars, moreVars>>

SpecCustomer == InitCustomer /\ [][NextCustomer]_vars

InitMail ==
  /\ CounterIdle /\ LedgerIdle /\ CalcIdle
  /\ CompanyIdle /\ RowsIdle /\ CustomerIdle /\ MailInit /\ FlowIdle /\ MoreIdle

NextMail ==
  send_invoice_email
    /\ UNCHANGED <<counterVars, ledgerVars, calcVars, companyVars, rowVars, customerVars, flowVars, moreVars>>

SpecMail == InitMail /\ [][NextMail]_vars

InitFlow ==
  /\ CounterIdle /\ LedgerIdle /\ CalcIdle
  /\ CompanyIdle /\ RowsIdle /\ CustomerIdle /\ MailIdle /\ FlowInit /\ MoreIdle

NextFlow ==
  \/ step5_send_email
       /\ UNCHANGED <<counterVars, ledgerVars, calcVars, companyVars, rowVars,
                      customerVars, mailVars, moreVars>>
  \/ step6_bookkeeping_copy
       /\ UNCHANGED <<counterVars, ledgerVars, calcVars, companyVars, rowVars,
                      customerVars, mailVars, moreVars>>

SpecFlow == InitFlow /\ [][NextFlow]_vars

\* the variables and the idle states of the specifications up to SpecFlow
baseVars == <<counterVars, ledgerVars, calcVars, companyVars, rowVars, customerVars,
              mailVars, flowVars>>

BaseIdle ==
  /\ CounterIdle /\ LedgerIdle /\ CalcIdle
  /\ CompanyIdle /\ RowsIdle /\ CustomerIdle /\ MailIdle /\ FlowIdle

InitSelect == BaseIdle /\ SelectInit /\ RaceIdle /\ RunIdle

NextSelect ==
  \/ select_tasks /\ UNCHANGED <<baseVars, raceVars, runVars>>
  \/ select_tasks_prompt /\ UNCHANGED <<baseVars, raceVars, runVars>>

SpecSelect == InitSelect /\ [][NextSelect]_vars

\* the groups of baseVars but the counter
afterCounterVars == <<ledgerVars, calcVars, companyVars, rowVars, customerVars, mailVars,
                      flowVars>>

InitRace ==
  /\ CounterInit /\ LedgerIdle /\ CalcIdle
  /\ CompanyIdle /\ RowsIdle /\ CustomerIdle /\ MailIdle /\ FlowIdle
  /\ SelectIdle /\ RaceInit /\ RunIdle

NextRace ==
  \/ \E p \in Invocations : race_read(p) /\ UNCHANGED <<afterCounterVars, selectVars, runVars>>
  \/ \E p \in Invocations : race_increment(p) /\ UNCHANGED <<afterCounterVars, selectVars, runVars>>
  \/ \E p \in Invocations : race_open(p) /\ UNCHANGED <<afterCounterVars, selectVars, runVars>>
  \/ \E p \in Invocations : race_dump(p) /\ UNCHANGED <<afterCounterVars, selectVars, runVars>>

SpecRace == InitRace /\ [][NextRace]_vars

\* what a run leaves alone: the histories of the counter and of the ledger and
\* the other specifications
runRest == <<counterHistory, issued, clock, taskA, taskB, changed, recT, recK, recOutcome,
             chkT, chkHits, chkResult, ledgerOps, keyA, keyB, calcVars, companyVars,
             rowVars, customerVars, mailVars, flowVars, selectVars, raceVars>>

InitRun ==
  /\ RunInit
  /\ CounterInit /\ counterFile \in RunCounterFiles
  /\ LedgerIdleBut /\ ledgerFile = runIn.ledger
  /\ CalcIdle /\ CompanyIdle /\ RowsIdle /\ CustomerIdle /\ MailIdle /\ FlowIdle
  /\ SelectIdle /\ RaceIdle

NextRun ==
  \/ Credit_memo /\ UNCHANGED runRest
  \/ main_startup /\ UNCHANGED runRest
  \/ main_select_customer /\ UNCHANGED runRest
  \/ main_select_tasks /\ UNCHANGED runRest
  \/ main_warn_already_invoiced /\ UNCHANGED runRest
  \/ main_reselect_tasks /\ UNCHANGED runRest
  \/ main_confirm /\ UNCHANGED runRest
  \/ main_adjust /\ UNCHANGED runRest
  \/ main_adjust_tasks /\ UNCHANGED runRest
  \/ main_adjust_confirm /\ UNCHANGED runRest
  \/ generate_load_company_details /\ UNCHANGED runRest
  \/ generate_allocate /\ UNCHANGED runRest
  \/ generate_render /\ UNCHANGED runRest
  \/ main_upload_to_drive /\ UNCHANGED runRest
  \/ main_record_invoiced_tasks /\ UNCHANGED runRest
  \/ main_send_email /\ UNCHANGED runRest
  \/ main_bookkeeping_copy /\ UNCHANGED runRest
  \/ main_interrupt /\ UNCHANGED runRest

SpecRun == InitRun /\ [][NextRun]_vars

----------------------------------------------------------------------------
(* Invoice number counter: claims *)

\* the persisted value c a run starts from: 784 when no counter file exists
StartValue(file) ==
  IF file.kind = "absent" THEN DefaultInvoiceNumber ELSE file.value.val

\* the start file is absent or holds an integer: every read succeeds
ReadsSucceed == initFile = FileAbsent \/ (initFile.kind = "object" /\ initFile.has
                                          /\ initFile.value.type = "int")

\* the values the allocations return when no peek is made in between: the
\* allocations replayed from the start file with the same write outcomes
RECURSIVE AllocationsAlone(_, _)
AllocationsAlone(file, outs) ==
  IF outs = <<>> THEN <<>>
  ELSE LET r == GetNext(file, Head(outs)) IN
         <<r.ret>> \o AllocationsAlone(r.file, Tail(outs))

\* C1: with counter file reads and writes succeeding, the N allocations made so
\* far from the persisted value c (784 when there is no file) returned exactly
\* c+1, c+2, ..., c+N, so the first number ever issued is 785.
C1_ConsecutiveNumbers ==
  (ReadsSucceed /\ writesOk) =>
    \A i \in 1..Len(issued) : issued[i] = JInt(StartValue(initFile) + i)

C1_Witness ==
  /\ initFile = FileAbsent
  /\ writesOk
  /\ Len(issued) = MaxCalls
  /\ issued[1] = JInt(785)
  /\ issued[MaxCalls] = JInt(784 + MaxCalls)

\* C2: peeks leave the persisted counter alone: the allocations return what they
\* return without any peek in between, and an allocation that follows a peek
\* returns the number the peek announced.
C2_PeekDoesNotAllocate ==
  /\ issued = AllocationsAlone(initFile, outcomes)
  /\ peekAtAlloc # NoValue => issued[Len(issued)] = peekAtAlloc

C2_Witness ==
  /\ ReadsSucceed
  /\ writesOk
  /\ Len(issued) = 2
  /\ peekAtAlloc = issued[2]
  /\ peekAtAlloc = JInt(StartValue(initFile) + 2)

\* C3: in every execution of get_next_invoice_number, failing reads and writes
\* included, the number it returns is the persisted counter value at the moment
\* it is handed out.
C3_PersistedBeforeReturn ==
  \A i \in 1..Len(issued) : savedAtReturn[i]

\* the counter file exists but is unreadable or corrupt: not JSON, not an object
\* with the key, or a value that is not an integer
CorruptAtStart ==
  \/ initFile.kind \in {"invalid", "list"}
  \/ initFile.kind = "object" /\ ~initFile.has
  \/ initFile.kind = "object" /\ initFile.has /\ initFile.value.type # "int"

\* C4: with a corrupt counter file get_next_invoice_number falls back to the
\* default floor 784 and returns 785.
C4_CorruptFallsBackTo785 ==
  (CorruptAtStart /\ Len(issued) >= 1) => issued[1] = JInt(FallbackInvoiceNumber)


----------------------------------------------------------------------------
(* Invoiced-task ledger and fingerprint: claims *)

\* every task of the latest record_invoiced_tasks(T, K) has its fingerprint in
\* the ledger file under K
RecordedUnderK ==
  \A i \in 1..Len(recT) :
    /\ ledgerFile.kind = "dict"
    /\ task_unique_key(recT[i]) \in DOMAIN ledgerFile.entries
    /\ ledgerFile.entries[task_unique_key(recT[i])].invoice_number = recK

\* a duplicate check of the same tasks reported every one of them under K
CheckReportsAllUnderK ==
  /\ Len(chkHits) = Len(recT)
  /\ \A i \in 1..Len(recT) :
       /\ chkHits[i].task = recT[i]
       /\ chkHits[i].meta.invoice_number = recK

SameForTheKey(field, v, w) ==
  IF field = "description"
    THEN SubSeq(Strip(v), 1, Min(Len(Strip(v)), DescriptionKeyLength))
           = SubSeq(Strip(w), 1, Min(Len(Strip(w)), DescriptionKeyLength))
    ELSE Strip(v) = Strip(w)

\* C6 (as stated): changing the value of any single field of a task yields a
\* different fingerprint.
C6_AnyChangeChangesKey ==
  (keyA # NoValue /\ taskA # taskB) => keyA # keyB

\* C6 (amended): the fingerprint is a function of the nine fields, and changing
\* a single field yields a different fingerprint exactly when the field changes
\* in more than surrounding blanks or, for the description, within the first
\* 120 characters of the stripped text.
C6_KeyFollowsNormalizedField ==
  keyA # NoValue =>
    /\ keyA = task_unique_key(taskA)
    /\ (keyA = keyB) <=> SameForTheKey(changed, taskA[changed], taskB[changed])

C6_Witness ==
  /\ keyA # NoValue
  /\ keyA = keyB
  /\ changed = "description"
  /\ Len(taskA.description) = DescriptionKeyLength
  /\ Len(taskB.description) = DescriptionKeyLength + 1
  /\ taskB.description[1] = "a"

----------------------------------------------------------------------------
(* Invoice amounts: claims *)

\* the sum field of a task when it is present and parses as a number
HasSum(task) == task.sum # Absent /\ FloatOf(task.sum).kind = "finite"

SumField(task) == FromMilli(FloatOf(task.sum).milli)

\* the minutes of a task, zero when the cell does not hold a number
MinutesOrZero(task) ==
  IF task.time_minutes = Absent \/ FloatOf(task.time_minutes).kind # "finite"
    THEN 0
    ELSE Truncate(FloatOf(task.time_minutes).milli)

\* the line amount as the calculation engine is described: the sum field when
\* present and numeric, otherwise (minutes / 60) x hourly rate
ClaimedLineAmount(task, rate) ==
  IF HasSum(task) THEN SumField(task) ELSE AtHourlyRate(MinutesOrZero(task), rate)

ClaimedSubtotal(tasks, rate) ==
  SumSeq([i \in 1..Len(tasks) |-> ClaimedLineAmount(tasks[i], rate)])

\* C7: every selected task contributes its sum field when that is present and
\* numeric and otherwise (minutes / 60) x hourly rate, and that subtotal is the
\* one of the console summary and of the rendered invoice.
C7_LineAmountRule ==
  /\ summary # NoValue => summary.subtotal = ClaimedSubtotal(selected, hourlyRate)
  /\ (pdf # NoValue /\ ~creditMemo) =>
       pdf.subtotal = ClaimedSubtotal(selected, hourlyRate)

\* VAT is a quarter of the subtotal and the total is their sum
VatAndTotalFollow(r) == r.vat * 4 = r.subtotal /\ r.total = r.subtotal + r.vat

\* the numeric sum cells of the tasks added up, other cells counting as zero
SumOfSums(tasks) ==
  SumSeq([i \in 1..Len(tasks) |-> IF HasSum(tasks[i]) THEN SumField(tasks[i]) ELSE 0])

\* the numeric sum cells of the rendered rows added up
SumOfRows(rows) ==
  SumSeq([i \in 1..Len(rows) |->
            IF FloatOf(rows[i].sum).kind = "finite"
              THEN FromMilli(FloatOf(rows[i].sum).milli) ELSE 0])

\* C8: at each place that computes them (summary, preview, PDF) the subtotal is
\* the sum of the line amounts, VAT is exactly 25% of the subtotal and the total
\* is subtotal + VAT.
C8_VatIsQuarterOfSubtotal ==
  /\ summary # NoValue =>
       /\ VatAndTotalFollow(summary)
       /\ summary.subtotal =
            SumSeq([i \in 1..Len(selected) |->
                      AtHourlyRate(MinutesOrZero(selected[i]), hourlyRate)])
  /\ preview # NoValue =>
       /\ VatAndTotalFollow(preview)
       /\ preview.subtotal = SumOfSums(selected)
  /\ pdf # NoValue =>
       /\ VatAndTotalFollow(pdf)
       /\ pdf.subtotal = SumOfRows(pdf.rows)
       /\ ~creditMemo => pdf.subtotal = SumOfSums(selected)

\* two tasks with sums 300.00 and 450.25: subtotal 750.25, VAT 187.5625,
\* total 937.8125
C8_Witness ==
  /\ pdf # NoValue
  /\ preview # NoValue
  /\ ~creditMemo
  /\ Len(selected) = 2
  /\ selected[1].sum = <<"3", "0", "0", ".", "0", "0">>
  /\ selected[2].sum = <<"4", "5", "0", ".", "2", "5">>
  /\ pdf.subtotal = FromMilli(750250)
  /\ pdf.vat * 10 = FromMilli(1875625)
  /\ pdf.total * 10 = FromMilli(9378125)
  /\ preview.total = pdf.total

\* C9: the totals of a credit memo are the exact negations of the totals of the
\* invoice for the same tasks and rate; one 120-minute task without a sum at the
\* rate 500 (passed as -500) gives subtotal -1000, VAT -250, total -1250.
C9_CreditMemoNegatesInvoice ==
  (pdf # NoValue /\ creditMemo) =>
    /\ pdf.subtotal = -generate_invoice_pdf(selected, hourlyRate, FALSE).subtotal
    /\ pdf.vat = -generate_invoice_pdf(selected, hourlyRate, FALSE).vat
    /\ pdf.total = -generate_invoice_pdf(selected, hourlyRate, FALSE).total
    /\ pdf.subtotal = -ClaimedSubtotal(selected, hourlyRate)

\* C10: parsing the numeric fields of a task never raises, so the run is never
\* aborted by it, and a value that does not parse counts as zero.
C10_ParsingNeverRaises ==
  /\ calcPc # "aborted"
  /\ summary # NoValue =>
       summary.total_minutes =
         SumSeq([i \in 1..Len(selected) |-> MinutesOrZero(selected[i])])

----------------------------------------------------------------------------
(* C11, C12: company details *)

\* the value the local file holds for a key, '' when it holds none
LocalValue(file, k) ==
  IF file.kind = "dict" /\ k \in DOMAIN file.d THEN file.d[k] ELSE <<>>

\* the trimmed cell of the sheet row for a key, '' when the read failed or the row
\* has no such cell
SheetValue(reply, k) ==
  LET i == CHOOSE j \in 1..Len(ExpectedKeys) : ExpectedKeys[j] = k IN
    IF reply.kind = "rows" /\ Len(reply.rows) >= 1 /\ i <= Len(reply.rows[1])
      THEN Strip(reply.rows[1][i])
      ELSE <<>>

\* the field-by-field merge: the sheet's trimmed value when not empty, else the
\* local file's value
MergedField(file, reply, k) ==
  IF SheetValue(reply, k) # <<>> THEN SheetValue(reply, k) ELSE LocalValue(file, k)

\* the load_company_details calls made: the one called directly, the one of the
\* preview, the one of generate_invoice when it reported failure
Loads ==
  (IF details = NoValue THEN {} ELSE {[reply |-> details.reply, ret |-> details.ret]})
    \cup (IF previewTerms = NoValue THEN {}
          ELSE {[reply |-> previewTerms.reply, ret |-> previewTerms.details]})
    \cup (IF genResult = NoValue \/ genResult.rendered THEN {}
          ELSE {[reply |-> genResult.reply, ret |-> PyNone]})

\* C11: when the merged company name is empty, load_company_details returns None
\* and generate_invoice returns None without calling the PDF renderer
C11_EmptyNameStopsInvoice ==
  /\ \A l \in Loads :
       MergedField(companyFile, l.reply, "company_name") = <<>> => l.ret = PyNone
  /\ (genResult # NoValue
        /\ MergedField(companyFile, genResult.reply, "company_name") = <<>>)
       => (genResult.ret = PyNone /\ ~genResult.rendered)

\* generate_invoice failed on a readable local file whose name is empty, the sheet
\* row holding a blank name cell
C11_Witness ==
  /\ genResult # NoValue
  /\ companyFile.kind = "dict"
  /\ genResult.reply.kind = "rows"
  /\ Len(genResult.reply.rows) = 1
  /\ genResult.reply.rows[1] # <<>>
  /\ MergedField(companyFile, genResult.reply, "company_name") = <<>>
  /\ genResult.ret = PyNone
  /\ ~genResult.rendered
  /\ issued = <<>>

\* what C12 says of one load: a dictionary whose every field is the merged field
\* (None when the merged name is empty, C11)
MergedFieldByField(l) ==
  IF MergedField(companyFile, l.reply, "company_name") = <<>>
    THEN l.ret = PyNone
    ELSE /\ l.ret # PyNone
         /\ \A k \in ExpectedKeySet : l.ret.d[k] = MergedField(companyFile, l.reply, k)

\* C12 as stated: every load returns the field-by-field merge of the sheet row
\* over the local file
C12_MergeFieldByField == \A l \in Loads : MergedFieldByField(l)

\* the merge is field by field whenever the local file does not hold JSON that is
\* not an object; when it does, every load returns None whatever the sheet holds
MergeHoldsForObjectFiles ==
  \A l \in Loads :
    IF companyFile.kind = "notdict" THEN l.ret = PyNone ELSE MergedFieldByField(l)

----------------------------------------------------------------------------
(* C13: short rows *)

\* the data rows of a sheet that hold at least one cell
NonEmptyDataRows(rows) ==
  SelectSeq(IF rows = <<>> THEN <<>> ELSE Tail(rows), LAMBDA row : row # <<>>)

\* entity i of ret is data row i with '' for the cells the row lacks
PaddedInto(ret, data, columns) ==
  /\ Len(ret) = Len(data)
  /\ \A i \in 1..Len(data) :
       \A j \in 1..Len(columns) : ret[i][columns[j]] = Cell(data[i], j)

\* the task rows of a customer, short or not
RowsOfCustomer(rows, name) ==
  SelectSeq(NonEmptyDataRows(rows), LAMBDA row : Cell(row, 2) = name)

\* every rate cell of the sheet is empty or a number
RatesAreNumbers(rows) ==
  \A i \in 1..Len(rows) : ~HourlyRateOf(rows[i]).raised

\* C13: after a successful read the header row is skipped and every data row,
\* also one with fewer cells than columns, is mapped to an entity whose missing
\* trailing fields are ''
C13_ShortRowsArePadded ==
  /\ (customers # NoValue /\ customers.reply.kind = "rows"
        /\ RatesAreNumbers(customers.reply.rows))
       => PaddedInto(customers.ret, NonEmptyDataRows(customers.reply.rows),
                     CustomerTextFields)
  /\ (customerTasks # NoValue /\ customerTasks.reply.kind = "rows")
       => PaddedInto(customerTasks.ret,
                     RowsOfCustomer(customerTasks.reply.rows, customerTasks.name),
                     TaskColumns)

\* the rows of full width are mapped and the header row is skipped
FullRowsAreMapped ==
  /\ (customers # NoValue /\ customers.reply.kind = "rows"
        /\ RatesAreNumbers(customers.reply.rows))
       => PaddedInto(customers.ret,
                     SelectSeq(NonEmptyDataRows(customers.reply.rows),
                               LAMBDA row : Len(row) >= 2),
                     CustomerTextFields)
  /\ (customerTasks # NoValue /\ customerTasks.reply.kind = "rows")
       => PaddedInto(customerTasks.ret,
                     SelectSeq(RowsOfCustomer(customerTasks.reply.rows,
                                              customerTasks.name),
                               LAMBDA row : Len(row) >= 9),
                     TaskColumns)

----------------------------------------------------------------------------
(* C14, C15: customer registration *)

\* the positions of the customer data rows of a sheet: every row but the headers
CustomerDataRows(sheet) == {i \in 1..Len(sheet) : sheet[i] # CC_Headers /\ sheet[i] # <<>>}

\* the identifier is held by a customer data row of the sheet
IdPresent(sheet, id) ==
  \E i \in CustomerDataRows(sheet) : Strip(sheet[i][1]) = Strip(id)

\* the rules of the registration that the data violates against the sheet
ViolatedRules(data, sheet) ==
  {[rule |-> "missing", field |-> CC_RequiredFields[i]] :
     i \in {j \in 1..Len(CC_RequiredFields) : Strip(data[CC_RequiredFields[j]]) = <<>>}}
  \cup (IF Strip(data.company_email) # <<>> /\ ~HasAt(data.company_email)
          THEN {[rule |-> "email", field |-> "company_email"]} ELSE {})
  \cup (IF Strip(data.customer_id) # <<>> /\ IdPresent(sheet, data.customer_id)
          THEN {[rule |-> "duplicate", field |-> "customer_id"]} ELSE {})

\* the list holds exactly one error for each violated rule
OneErrorPerRule(errors, rules) ==
  /\ {errors[i] : i \in 1..Len(errors)} = rules
  /\ Len(errors) = Cardinality(rules)

\* C14: validation returns one error for every violated rule (missing field,
\* malformed email, duplicate identifier) and add_customer appends nothing when
\* there is any
C14_CollectAllErrors ==
  lastAdd # NoValue =>
    /\ OneErrorPerRule(lastAdd.errors, ViolatedRules(lastAdd.data, lastAdd.before))
    /\ (lastAdd.errors # <<>> => (~lastAdd.ret /\ lastAdd.after = lastAdd.before))

\* the sheet was read, begins with the headers and holds trimmed identifiers
ScanSeesTheSheet ==
  /\ lastAdd.seen = lastAdd.before
  /\ lastAdd.before # <<>>
  /\ lastAdd.before[1] = CC_Headers
  /\ \A i \in CustomerDataRows(lastAdd.before) :
       Strip(lastAdd.before[i][1]) = lastAdd.before[i][1]

\* the errors are collected, one per violated rule, whenever the scan for the
\* identifier sees the sheet; nothing is appended when there is an error
CollectAllWhenScanSeesTheSheet ==
  lastAdd # NoValue =>
    /\ ScanSeesTheSheet
         => OneErrorPerRule(lastAdd.errors, ViolatedRules(lastAdd.data, lastAdd.before))
    /\ (lastAdd.errors # <<>> => (~lastAdd.ret /\ lastAdd.after = lastAdd.before))

\* C15: no two customer data rows carry the same identifier, and add_customer
\* with an identifier already present returns False and writes nothing
C15_IdentifiersStayUnique ==
  /\ \A i, j \in CustomerDataRows(regSheet) :
       i # j => regSheet[i][1] # regSheet[j][1]
  /\ (lastAdd # NoValue
        /\ \E i \in CustomerDataRows(lastAdd.before) :
             lastAdd.before[i][1] = lastAdd.data.customer_id)
       => (~lastAdd.ret /\ lastAdd.after = lastAdd.before)

----------------------------------------------------------------------------
(* C16, C17, C18: send_invoice_email *)

AuthSteps == {"login", "auth_xoauth2"}

\* C16: on the SMTP connection STARTTLS is attempted before any authentication
\* (LOGIN or XOAUTH2), and authentication before the message is submitted
C16_TlsBeforeAuthBeforeSubmit ==
  mail # NoValue =>
    /\ \A i \in 1..Len(mail.log) :
         mail.log[i] \in AuthSteps => \E j \in 1..(i - 1) : mail.log[j] = "starttls"
    /\ \A i \in 1..Len(mail.log) :
         mail.log[i] = "sendmail" => \E j \in 1..(i - 1) : mail.log[j] \in AuthSteps

\* a message was sent with XOAUTH2
C16_Witness ==
  /\ mail # NoValue
  /\ mail.ret
  /\ InSeq("auth_xoauth2", mail.log)
  /\ InSeq("sendmail", mail.log)

\* the stripped, non-empty addresses of the given list other than the To address
WantedCc(given, to) ==
  {a \in {Strip(given[i]) : i \in 1..Len(given)} : a # <<>> /\ Lower(a) # Lower(to)}

\* C17: the CC list used holds no address twice and never the To address, and
\* the recipients are the To address followed by that list
C17_CcCleaned ==
  mail # NoValue =>
    /\ \A i, j \in 1..Len(mail.cc) : i # j => mail.cc[i] # mail.cc[j]
    /\ \A i \in 1..Len(mail.cc) : mail.cc[i] # mail.to
    /\ {mail.cc[i] : i \in 1..Len(mail.cc)} = WantedCc(mail.given, mail.to)
    /\ InSeq("sendmail", mail.log) => mail.recipients = <<mail.to>> \o mail.cc

\* a message went to "a" with "b" in copy, the list given holding the To address in
\* capitals and "b" twice
C17_Witness ==
  /\ mail # NoValue
  /\ mail.ret
  /\ mail.to = <<"a">>
  /\ InSeq(<<"A">>, mail.given)
  /\ Len(mail.given) > Len(mail.cc)
  /\ mail.recipients = <<<<"a">>, <<"b">>>>

\* the configuration is invalid: no sender address, no password for the password
\* method, an unknown method, or no token for the OAuth method
InvalidConfiguration(env, token) ==
  \/ env.sender_email = <<>>
  \/ env.auth_method = "password" /\ env.sender_password = <<>>
  \/ env.auth_method \notin {"password", "oauth"}
  \/ env.auth_method = "oauth" /\ token # "token"

\* C18: every failure is reported as False, no SMTP connection is opened when the
\* configuration is invalid, and True is returned only after the message was
\* submitted
C18_FailuresReportedAsFalse ==
  mail # NoValue =>
    /\ mail.ret \in BOOLEAN
    /\ InvalidConfiguration(mailEnv, mail.token) => (~mail.ret /\ mail.log = <<>>)
    /\ ~mail.readable => ~mail.ret
    /\ (mail.log # <<>> /\ mail.log[Len(mail.log)] # "quit") => ~mail.ret
    /\ mail.ret => (mail.submitted /\ InSeq("sendmail", mail.log))

\* the password is missing for the password method: False, no connection
C18_Witness ==
  /\ mail # NoValue
  /\ mailEnv.sender_email # <<>>
  /\ mailEnv.port_ok
  /\ mailEnv.auth_method = "password"
  /\ mailEnv.sender_password = <<>>
  /\ mail.readable
  /\ ~mail.ret
  /\ mail.log = <<>>

----------------------------------------------------------------------------
(* C19: the customer email and the bookkeeping copy *)

\* the customer email was declined, or sent and failed
CustomerSendFailedOrDeclined ==
  customerSend.asked /\ ~customerSend.ret

\* C19: a failed or declined customer send never prevents the bookkeeping copy from
\* being offered, and the run completes whatever the bookkeeping send returns
C19_SendsAreIndependent ==
  /\ (flowPc = "done" /\ flowIn.bookkeeping # <<>> /\ CustomerSendFailedOrDeclined)
       => bookSend.offered
  /\ bookSend # NoValue => (flowPc = "done" /\ customerSend # NoValue)

\* the bookkeeping copy is offered whenever the bookkeeping address was not in the
\* CC list of a customer email, and a failed copy leaves the run completed
OfferedUnlessInCc ==
  /\ (flowPc = "done" /\ flowIn.bookkeeping # <<>>
        /\ ~SkipBookkeeping(customerSend, flowIn.bookkeeping))
       => bookSend.offered
  /\ bookSend # NoValue => (flowPc = "done" /\ customerSend # NoValue)

----------------------------------------------------------------------------
(* C20: payment terms *)

\* the text is a valid integer
ValidInteger(text) == text # Absent /\ IntOf(text).ok

\* the precedence of the payment terms: the company field, the environment, 8
ResolvedDays(field, env) ==
  IF ValidInteger(field) THEN IntOf(field).val
  ELSE IF ValidInteger(env) THEN IntOf(env).val
  ELSE 8

\* the payment_terms_days field of loaded company details, '' when none are loaded
TermsField(cdetails) ==
  IF cdetails = PyNone THEN <<>> ELSE cdetails.d["payment_terms_days"]

\* the preview resolves the days by the precedence and adds them to its issue date
PreviewFollowsPrecedence ==
  previewTerms # NoValue =>
    /\ previewTerms.days = ResolvedDays(TermsField(previewTerms.details), envDays)
    /\ previewTerms.due = previewTerms.issue + previewTerms.days

\* C20: the days are the company field when a valid integer, else the environment
\* value when a valid integer, else 8; the due date is the issue date plus the
\* days; the PDF and the preview resolve the same days for the same inputs
C20_PaymentTermsPrecedence ==
  /\ PreviewFollowsPrecedence
  /\ pdfDoc # NoValue =>
       /\ pdfDoc.days = ResolvedDays(pdfDoc.company["payment_terms_days"], envDays)
       /\ pdfDoc.due = pdfDoc.issue + pdfDoc.days
  /\ (pdfDoc # NoValue /\ previewTerms # NoValue
        /\ previewTerms.details = Some(pdfDoc.company))
       => pdfDoc.days = previewTerms.days

----------------------------------------------------------------------------
(* C30: row isolation *)

\* the customer rows get_customers is to return: at least an id and a name, and a
\* rate cell that is missing, empty or a number
WellFormedCustomerRows(rows) ==
  SelectSeq(DataRows(rows), LAMBDA row : Len(row) >= 2 /\ ~HourlyRateOf(row).raised)

\* the rows of Opgave whose customer-name cell is the name, in sheet order
NamedTaskRows(rows, name) ==
  SelectSeq(DataRows(rows), LAMBDA row : Len(row) >= 2 /\ row[2] = name)

\* C30: a malformed cell affects only its row: after a successful read
\* get_customers returns the customer of every data row with an id, a name and a
\* usable rate cell (500.0 when missing or empty), and get_customer_tasks returns
\* every task row whose customer-name cell is the selected name, in sheet order
C30_RowIsolation ==
  /\ (customers # NoValue /\ customers.reply.kind = "rows")
       => LET rows == WellFormedCustomerRows(customers.reply.rows) IN
            customers.ret = [i \in 1..Len(rows) |-> CustomerOf(rows[i])]
  /\ (customerTasks # NoValue /\ customerTasks.reply.kind = "rows")
       => LET rows == NamedTaskRows(customerTasks.reply.rows, customerTasks.name) IN
            /\ Len(customerTasks.ret) = Len(rows)
            /\ \A i \in 1..Len(rows) :
                 \A j \in 1..Len(TaskColumns) :
                   customerTasks.ret[i][TaskColumns[j]] = Cell(rows[i], j)

\* rows too short to be a customer or a full task row affect no other row
ShortRowsAffectOnlyThemselves ==
  /\ (customers # NoValue /\ customers.reply.kind = "rows"
        /\ RatesAreNumbers(customers.reply.rows))
       => LET rows == WellFormedCustomerRows(customers.reply.rows) IN
            customers.ret = [i \in 1..Len(rows) |-> CustomerOf(rows[i])]
  /\ (customerTasks # NoValue /\ customerTasks.reply.kind = "rows")
       => LET rows == SelectSeq(NamedTaskRows(customerTasks.reply.rows,
                                              customerTasks.name),
                                LAMBDA row : Len(row) >= 9) IN
            customerTasks.ret = [i \in 1..Len(rows) |-> TaskOf(rows[i])]

----------------------------------------------------------------------------
(* C28: ledger frame *)

\* the fingerprints of the tasks of a list
KeysOf(tasks) == {task_unique_key(tasks[i]) : i \in 1..Len(tasks)}

\* every entry of the ledger file before, but those of the tasks, is in the file
\* after with the same invoice number and timestamp, and nothing else is new
EntriesKept(before, after, tasks) ==
  LET old == load_invoiced_tasks(before) IN
    /\ \A k \in DOMAIN old \ KeysOf(tasks) :
         /\ after.kind = "dict"
         /\ k \in DOMAIN after.entries
         /\ after.entries[k] = old[k]
    /\ DOMAIN load_invoiced_tasks(after) \subseteq DOMAIN old \cup KeysOf(tasks)

\* the step is a record_invoiced_tasks call, a warn_already_invoiced call
IsRecordStep == ledgerOps' # ledgerOps /\ chkResult' = "none"
IsCheckStep == ledgerOps' # ledgerOps /\ chkResult' # "none"

\* C28: record_invoiced_tasks(T, K) changes only the entries under the
\* fingerprints of T, every other entry stays with its invoice number and
\* timestamp, and warn_already_invoiced never modifies the ledger
C28_LedgerFrame ==
  [][/\ IsRecordStep => EntriesKept(ledgerFile, ledgerFile', recT')
     /\ IsCheckStep => ledgerFile' = ledgerFile]_vars

\* the same for the calls whose write does not leave a truncated file
FrameUnlessTruncated ==
  [][/\ (IsRecordStep /\ recOutcome' # "fail_truncated")
          => EntriesKept(ledgerFile, ledgerFile', recT')
     /\ IsCheckStep => ledgerFile' = ledgerFile]_vars

----------------------------------------------------------------------------
(* C29: selection integrity *)

\* the text names an index that is no number or outside 1..len(tasks)
HasBadIndex(tasks, selection) ==
  LET parts == Split(selection) IN
    \E i \in 1..Len(parts) :
      \/ ~IntOf(parts[i]).ok
      \/ IntOf(parts[i]).val < 1
      \/ IntOf(parts[i]).val > Len(tasks)

\* the text entered last
LastEntered == entered[Len(entered)]

\* the list returned is not empty and holds only offered tasks
FromOffered(ret) ==
  /\ ret.tasks # <<>>
  /\ \A i \in 1..Len(ret.tasks) :
       /\ ret.positions[i] \in 1..Len(offered)
       /\ ret.tasks[i] = offered[ret.positions[i]]

\* no offered task is in the list twice
EachAtMostOnce(ret) ==
  \A i, j \in 1..Len(ret.positions) : ret.positions[i] = ret.positions[j] => i = j

\* a text that is neither 'q' nor 'all' and holds a bad index returns nothing
BadIndexAsksAgain ==
  (entered # <<>> /\ Lower(LastEntered) \notin {<<"q">>, <<"a", "l", "l">>}
     /\ HasBadIndex(offered, LastEntered))
    => selectPc = "prompting"

\* C29: select_tasks returns None (quit, or no task offered) or a non-empty list
\* of offered tasks in which each offered task appears at most once; a text with
\* an out-of-range or non-numeric index selects nothing and the prompt asks again
C29_SelectionIntegrity ==
  /\ selectPc = "returned" =>
       \/ /\ selectRet = PyNone
          /\ offered = <<>> \/ Lower(LastEntered) = <<"q">>
       \/ /\ selectRet # PyNone
          /\ FromOffered(selectRet)
          /\ EachAtMostOnce(selectRet)
  /\ BadIndexAsksAgain

\* the same without "at most once"
SelectionFromOffered ==
  /\ selectPc = "returned" =>
       \/ /\ selectRet = PyNone
          /\ offered = <<>> \/ Lower(LastEntered) = <<"q">>
       \/ /\ selectRet # PyNone
          /\ FromOffered(selectRet)
  /\ BadIndexAsksAgain

----------------------------------------------------------------------------
(* C24: the counter file is not locked *)

BothReturned == \A p \in Invocations : racePc[p] = "returned"

\* the two invocations returned the same invoice number
SameNumberTwice == BothReturned /\ raceRet[1] = raceRet[2]

\* C24: run concurrently the two invocations can return the same number (see
\* C24_RaceReached); run one at a time, each called after the other returned,
\* they never do
C24_OneAtATimeNeverRepeats == (BothReturned /\ ~raceOverlap) => raceRet[1] # raceRet[2]

\* the interleaving of C24: both read before either wrote, every read and write
\* succeeded, and both returned the same number
C24_RaceReached ==
  /\ SameNumberTwice
  /\ raceOverlap
  /\ ReadsSucceed
  /\ \A p \in Invocations : raceLocal[p].outcome = "ok"

\* one at a time and with the number of the first saved, the second is another
OneAtATimeDistinctWhenSaved ==
  (BothReturned /\ ~raceOverlap /\ ReadsSucceed
     /\ \A p \in Invocations : raceLocal[p].outcome = "ok")
    => raceRet[1] # raceRet[2]

\* concurrent invocations never return the same number although every read and
\* write succeeds: refuted by the interleaving of C24
ConcurrentNeverRepeat == ~C24_RaceReached

----------------------------------------------------------------------------
(* C21..C27: the run of main *)

\* the positions of Step 4 and after
AfterConfirmation ==
  {"generate", "numbering", "rendering", "upload", "record", "email", "bookkeeping",
   "done"}

\* the selection passed the duplicate check: warn_already_invoiced returned True
\* for these very tasks, none of them being in the ledger or the user having
\* answered 'y'
PassedDuplicateCheck ==
  /\ runGate # NoValue
  /\ runGate.tasks = runSel
  /\ runGate.how = "clean"
       => AlreadyInvoiced(load_invoiced_tasks(runIn.ledger), runSel) = <<>>

\* C21: every selection that reaches invoice generation has passed the duplicate
\* check, also one changed after a declined override or through 'adjust'
C21_DuplicateGateOnEveryPath ==
  runPc \in AfterConfirmation => PassedDuplicateCheck

\* the same for the runs in which the selection was not adjusted at the
\* confirmation step
GateHoldsWithoutAdjust ==
  (runPc \in AfterConfirmation /\ ~runFlags.adjusted) => PassedDuplicateCheck

\* the step is in the trace of the run
Done(step) == \E i \in 1..Len(runTrace) : runTrace[i] = step

\* the place of a step in the order of C22
Rank(step) ==
  CASE step = "details" -> 0
    [] step = "allocate" -> 1
    [] step \in {"render", "render_failed"} -> 2
    [] step \in {"upload", "upload_failed"} -> 3
    [] step = "record" -> 4
    [] step = "send_customer" -> 5
    [] step = "send_copy" -> 6
    [] step = "done" -> 7

\* the steps made are in the order allocate, render, upload, record, customer
\* email, internal copy, Done
StepsInOrder ==
  \A i, j \in 1..Len(runTrace) : i < j => Rank(runTrace[i]) < Rank(runTrace[j])

\* a render failure ends the run with exit code 1, nothing recorded or sent
RenderFailureEndsRun ==
  Done("render_failed")
    => /\ runPc = "failed" /\ exitCode = <<1>>
       /\ ledgerFile = runIn.ledger
       /\ runUses = <<>>

\* C22: the steps after the confirmation are made in the order allocate, render,
\* upload, record, customer email, internal copy, Done; the ledger is recorded
\* if and only if the PDF was rendered and before any email, also after a failed
\* upload; a render failure ends the run with exit code 1, nothing recorded or
\* sent
C22_StepsInOrderLedgerBeforeEmails ==
  /\ StepsInOrder
  /\ Done("record") => Done("render")
  /\ runPc \in {"email", "bookkeeping", "done"} => Done("record")
  /\ RenderFailureEndsRun

\* the same for the runs whose invoice number is an integer
OrderHoldsForIntegerNumbers ==
  /\ StepsInOrder
  /\ Done("record") => Done("render")
  /\ (runPc \in {"email", "bookkeeping", "done"} /\ runAlloc.number.type = "int")
       => Done("record")
  /\ RenderFailureEndsRun

\* the latest step was an explicit quit or the interrupt signal
QuitOrInterrupt == runLast.quit \/ runLast.how = "interrupt"

\* exit code 0 on Done and Cancelled, exit code 1 only on an unrecoverable error
ExitCodes ==
  /\ runPc \in {"cancelled", "done"} => exitCode = <<0>>
  /\ exitCode = <<1>> => runPc = "failed"
  /\ runPc \notin Terminal => exitCode = <<>>

\* C23: at every step of the flow, the credit memo prompt included, 'q' or the
\* interrupt signal moves the run to Cancelled with exit code 0; exit code 1
\* comes only from unrecoverable errors
C23_QuitOrInterruptCancels ==
  /\ QuitOrInterrupt => (runPc = "cancelled" /\ exitCode = <<0>>)
  /\ ExitCodes

\* the prompts at which 'q' is the quit token: the customer and task selections
QuitPrompts == {"select_customer", "select_tasks", "reselect", "adjust_select"}

\* 'q' at a selection prompt and the interrupt signal inside the try block of
\* main cancel the run with exit code 0
CancelsInsideTry ==
  /\ ((runLast.quit /\ runLast.prompt \in QuitPrompts)
        \/ (runLast.how = "interrupt" /\ runLast.prompt # "credit_memo"))
       => (runPc = "cancelled" /\ exitCode = <<0>>)
  /\ runPc \in {"cancelled", "done"} => exitCode = <<0>>
  /\ runPc \notin Terminal => exitCode = <<>>

\* the yes/no confirmations after the task selection
Confirmations == {"override", "generate", "send", "copy"}

\* C25: with -y no confirmation after the task selection waits for input: the
\* override of the already-invoiced warning, generate, send to the customer and
\* send the bookkeeping copy are taken as 'yes'
C25_YesAnswersEveryConfirmation ==
  (runIn.yes /\ runLast.prompt \in Confirmations) => runLast.how # "typed"

\* the same without the already-invoiced warning
YesAnswersAllButOverride ==
  (runIn.yes /\ runLast.prompt \in Confirmations \ {"override"}) => runLast.how # "typed"

\* C26: get_next_invoice_number is called at most once in a run and only after
\* generation was confirmed and load_company_details succeeded; until then the
\* counter file and the ledger are as the run found them; the counter file is
\* not put back when the render fails
C26_AllocationGuard ==
  /\ Cardinality({i \in 1..Len(runTrace) : runTrace[i] = "allocate"}) <= 1
  /\ Done("allocate") => (runFlags.confirmed /\ Done("details"))
  /\ ~Done("allocate") => (counterFile = initFile /\ ledgerFile = runIn.ledger)
  /\ Done("render_failed")
       => /\ counterFile = GetNext(initFile, runAlloc.outcome).file
          /\ ledgerFile = runIn.ledger
          /\ (GetNext(initFile, runAlloc.outcome).wrote /\ runAlloc.outcome = "ok")
               => counterFile = FileWith(runAlloc.number)

\* a confirmed run whose render failed: the number 901 is gone from the counter
C26_Witness ==
  /\ runPc = "failed"
  /\ Done("render_failed")
  /\ runFlags.confirmed
  /\ initFile = FileWith(JInt(900))
  /\ counterFile = FileWith(JInt(901))
  /\ runAlloc.number = JInt(901)

\* C27: the PDF is named faktura_<n>_<YYYYMMDD>.pdf for the allocated number n,
\* rendering leaves the counter alone, and the number recorded in the ledger and
\* put in the email subjects, read back from the path, is n
C27_NumberConsistency ==
  /\ runPdf # <<>> =>
       /\ runPdf = PdfPath(runIn.cwd, runAlloc.number)
       /\ counterFile = runAlloc.file
  /\ \A i \in 1..Len(runUses) : runAlloc.number = JInt(runUses[i].number)

\* the same for an integer number and a working directory whose name does not
\* hold the pattern
NumbersAgreeInPlainDirectory ==
  /\ runPdf # <<>> =>
       /\ runPdf = PdfPath(runIn.cwd, runAlloc.number)
       /\ counterFile = runAlloc.file
  /\ (runAlloc # NoValue /\ runAlloc.number.type = "int"
        /\ ~ReSearch(runIn.cwd \o <<"/">>).matched)
       => \A i \in 1..Len(runUses) : runAlloc.number = JInt(runUses[i].number)

============================================================================
